---- MODULE Spec2Model ----
(***************************************************************************)
(* SSTable component files and their table of contents (sstables.cc):      *)
(* the writer's creation of the files of one generation, the sealing       *)
(* rename of TemporaryTOC to TOC, hard-link publication into a second      *)
(* directory, deletion by TOC name, removal of a generation that has only  *)
(* a temporary TOC, and the loading of a TOC file.                         *)
(*                                                                         *)
(* One generation of one table is modelled.  Every file operation is a     *)
(* suspension point of the cooperative scheduler and one step here.  The   *)
(* calls a parallel_for_each issues reach the file system in the order of  *)
(* iteration, so a crash can cut them after any prefix.                    *)
(***************************************************************************)
EXTENDS Integers, Sequences, FiniteSets, TLC

(***************************************************************************)
(* Names                                                                   *)
(***************************************************************************)

\* The writers that may be asked to write the generation.
Writers == {"w1", "w2"}

\* The table's directory and the directory create_links publishes into.
Dirs == {"dir", "backups"}

\* The component names of the version's component map, in component_type order.
ComponentOrder ==
    <<"Index", "CompressionInfo", "Data", "TOC", "Summary", "Digest", "CRC",
      "Filter", "Statistics", "TemporaryTOC", "TemporaryStatistics", "Scylla">>

ComponentMap == {ComponentOrder[i] : i \in DOMAIN ComponentOrder}

\* A line no version's component map knows, and a line long enough to fill
\* the 4096-byte buffer read_toc reads into.
SomethingNew == "SomethingNew"

BigLine == "BigLine"

TocBufSize == 4096

UnknownNames == {SomethingNew, BigLine}

Names == ComponentMap \cup UnknownNames

TocFiles == {"TOC", "TemporaryTOC"}

\* The files a writer creates besides the two TOC names.
DataComponents == ComponentMap \ (TocFiles \cup {"TemporaryStatistics"})

(***************************************************************************)
(* Sequence helpers                                                        *)
(***************************************************************************)

Range(s) == {s[i] : i \in DOMAIN s}

\* Position of the first x in s, and Len(s) + 1 when s has no x.
IndexOf(s, x) ==
    IF x \in Range(s) THEN CHOOSE i \in DOMAIN s : s[i] = x /\ \A j \in 1..(i - 1) : s[j] # x
    ELSE Len(s) + 1

\* The members of S in component_type order, then nothing else.
InOrder(S) == SelectSeq(ComponentOrder, LAMBDA n : n \in S)

(***************************************************************************)
(* The ModernM (mc) writer: clustering positions and range tombstones      *)
(***************************************************************************)

\* Clustering keys are 0..MaxKey, tombstones are timestamps 1..MaxTomb, and a
\* clustering row takes one of RowSizes bytes.
MaxKey == 1

MaxTomb == 2

Keys == 0..MaxKey

Tombs == 1..MaxTomb

RowSizes == {1, 2}

\* std::optional: <<>> when disengaged, <<v>> when engaged.
None == <<>>

Some(v) == <<v>>

\* position_in_partition of a range tombstone bound, as a rank: the bound lies
\* before or after every row of its key.
bound_position(key, kind) ==
    2 * key + (IF kind \in {"incl_start", "excl_end"} THEN 0 ELSE 1)

MaxBound == bound_position(MaxKey, "incl_end")

\* position_in_partition_view::after_key.
after_key(key) == bound_position(key, "incl_end")

\* range_tombstone::position() and range_tombstone::end_position().
rt_position(rt) == bound_position(rt.start, rt.start_kind)

rt_end_position(rt) == bound_position(rt.end, rt.end_kind)

\* The range tombstone that covers the stretch between two bound positions.
range_tombstone(s, e, t) ==
    [start |-> s \div 2, start_kind |-> IF s % 2 = 0 THEN "incl_start" ELSE "excl_start",
     end |-> e \div 2, end_kind |-> IF e % 2 = 1 THEN "incl_end" ELSE "excl_end",
     tomb |-> t]

RangeTombstones ==
    {range_tombstone(p[1], p[2], t) :
        p \in {q \in (0..MaxBound) \X (0..MaxBound) : q[1] < q[2]}, t \in Tombs}

\* rt_marker::position(): the bound the marker stands for.
marker_position(marker) == bound_position(marker.clustering, marker.kind)

\* The accumulator range_tombstone_stream keeps the range tombstones of the
\* partition sorted and free of overlap: where two overlap the greater
\* tombstone covers.  The accumulator is the function from the stretch between
\* bound positions i and i + 1 to the tombstone covering it, 0 for none.
NoRangeTombstones == [i \in 0..(MaxBound - 1) |-> 0]

\* range_tombstone_stream::apply.
rts_apply(acc, rt) ==
    [i \in DOMAIN acc |->
        IF rt_position(rt) <= i /\ i < rt_end_position(rt) /\ rt.tomb > acc[i]
        THEN rt.tomb ELSE acc[i]]

\* The first range tombstone of the accumulator: the longest stretch under one
\* tombstone that starts where the first covered stretch starts.
rts_first(acc) ==
    LET s == CHOOSE i \in DOMAIN acc : acc[i] # 0 /\ \A j \in DOMAIN acc : j < i => acc[j] = 0
        e == CHOOSE j \in (s + 1)..MaxBound :
                 /\ \A k \in s..(j - 1) : acc[k] = acc[s]
                 /\ j = MaxBound \/ acc[j] # acc[s]
    IN  range_tombstone(s, e, acc[s])

rts_empty(acc) == \A i \in DOMAIN acc : acc[i] = 0

\* range_tombstone_stream::get_next(upper_bound) and get_next(): the first
\* range tombstone, when it starts before the bound given.
rts_get_next(acc, pos) ==
    IF ~rts_empty(acc) /\ (pos = None \/ rt_position(rts_first(acc)) < pos[1])
    THEN Some(rts_first(acc)) ELSE None

\* get_next takes the range tombstone it returns out of the accumulator.
rts_pop(acc) ==
    LET rt == rts_first(acc)
    IN  [i \in DOMAIN acc |->
            IF rt_position(rt) <= i /\ i < rt_end_position(rt) THEN 0 ELSE acc[i]]

\* range_tombstone::trim_front: false when the range tombstone ends at or
\* before pos, else its start moves up to pos.
trim_front_keeps(rt, pos) == pos < rt_end_position(rt)

trim_front(rt, pos) ==
    IF rt_position(rt) < pos THEN range_tombstone(pos, rt_end_position(rt), rt.tomb) ELSE rt

(***************************************************************************)
(* The ModernM (mc) writer: sstable_writer_m                               *)
(***************************************************************************)

\* cfg.promoted_index_block_size, scaled to the sizes of the model's elements.
DesiredBlockSize == 3

\* The partitions one writer is given.
MaxPartitions == 2

\* The writer before its first partition.  data holds what the writer has
\* written to the Data file for the partition at hand, index what it has
\* written after the key in the partition's Index entry.
NewWriterM(has_static_columns) ==
    [data_offset |-> 0, data |-> <<>>, index |-> None,
     static_columns |-> has_static_columns,
     range_tombstones |-> NoRangeTombstones,
     end_open_marker |-> None,
     tombstone_written |-> FALSE, static_row_written |-> FALSE,
     promoted_index |-> <<>>, pi_tomb |-> 0,
     first_clustering |-> None, last_clustering |-> None,
     block_start_offset |-> 0, block_next_start_offset |-> 0,
     start_offset |-> 0, prev_row_start |-> 0, partition_header_length |-> 0,
     drained |-> <<>>]

\* What the Data file holds: the element, its clustering (for a row or a
\* marker), its kind, its tombstones (0 for none) and where it starts.
element(el, clustering, kind, tomb, boundary_tomb, size) ==
    [el |-> el, clustering |-> clustering, kind |-> kind, tomb |-> tomb,
     boundary_tomb |-> boundary_tomb, size |-> size, at |-> 0]

\* rt_marker{clustering, kind, tomb, boundary_tomb}; a boundary's second
\* tombstone takes its own bytes in the marker body.
rt_marker(clustering, kind, tomb, boundary_tomb) ==
    element("marker", clustering, kind, tomb, boundary_tomb,
            IF boundary_tomb # 0 THEN 2 ELSE 1)

clustering_row(key, size) == element("row", key, "clustering", 0, 0, size)

\* file_writer::write on _data_writer: the bytes go at offset(), which moves on.
write(w, e) ==
    [w EXCEPT !.data = Append(@, [e EXCEPT !.at = w.data_offset]),
              !.data_offset = @ + e.size]

\* The block's start is taken anew at every row or marker.
maybe_set_pi_first_clustering_always(w, info) ==
    [w EXCEPT !.first_clustering = Some(info),
              !.block_start_offset = w.data_offset,
              !.block_next_start_offset =
                  IF w.first_clustering = None THEN w.data_offset + DesiredBlockSize ELSE @]

\* maybe_set_pi_first_clustering: a block starts at its first row or marker.
maybe_set_pi_first_clustering(w, info) ==
    IF w.first_clustering = None
    THEN [w EXCEPT !.first_clustering = Some(info),
                   !.block_start_offset = w.data_offset,
                   !.block_next_start_offset = w.data_offset + DesiredBlockSize]
    ELSE w

\* The block's offset is taken from the start of the Data file.
add_pi_block_absolute(w) ==
    [w EXCEPT !.promoted_index = Append(@,
        [first |-> w.first_clustering[1], last |-> w.last_clustering[1],
         offset |-> w.block_start_offset,
         width |-> w.data_offset - w.block_start_offset,
         open_marker |-> IF w.end_open_marker # None
                         THEN Some(w.end_open_marker[1].tomb) ELSE None])]

\* The block never carries an open marker.
add_pi_block_unmarked(w) ==
    [w EXCEPT !.promoted_index = Append(@,
        [first |-> w.first_clustering[1], last |-> w.last_clustering[1],
         offset |-> w.block_start_offset - w.start_offset,
         width |-> w.data_offset - w.block_start_offset,
         open_marker |-> None])]

\* add_pi_block: the block is described as the writer stands when it is added,
\* its offset taken from _c_stats.start_offset.
add_pi_block(w) ==
    [w EXCEPT !.promoted_index = Append(@,
        [first |-> w.first_clustering[1], last |-> w.last_clustering[1],
         offset |-> w.block_start_offset - w.start_offset,
         width |-> w.data_offset - w.block_start_offset,
         open_marker |-> IF w.end_open_marker # None
                         THEN Some(w.end_open_marker[1].tomb) ELSE None])]

\* The block is closed only once the desired size is exceeded.
maybe_add_pi_block_late(w) ==
    IF w.data_offset > w.block_next_start_offset
    THEN [add_pi_block(w) EXCEPT
             !.first_clustering = None,
             !.block_next_start_offset = w.data_offset + DesiredBlockSize]
    ELSE w

\* maybe_add_pi_block.
maybe_add_pi_block(w) ==
    IF w.data_offset >= w.block_next_start_offset
    THEN [add_pi_block(w) EXCEPT
             !.first_clustering = None,
             !.block_next_start_offset = w.data_offset + DesiredBlockSize]
    ELSE w

\* write_clustered<T>: a clustering row or a marker goes to the Data file
\* between the two promoted-index calls.
write_clustered(w, clustered) ==
    LET info == [clustering |-> clustered.clustering, kind |-> clustered.kind]
        w1 == maybe_set_pi_first_clustering(w, info)
        pos == w1.data_offset
        w2 == write(w1, clustered)
    IN  maybe_add_pi_block([w2 EXCEPT !.last_clustering = Some(info), !.prev_row_start = pos])

\* consume(tombstone): the partition's deletion time, part of its header.
consume_tombstone(w, t) ==
    LET w1 == write(w, element("deletion_time", 0, "none", t, 0, 1))
    IN  [w1 EXCEPT !.partition_header_length = @ + (w1.data_offset - w.data_offset),
                   !.pi_tomb = t,
                   !.tombstone_written = TRUE]

\* No deletion time is written for a partition that has no tombstone.
ensure_tombstone_is_written_never(w) == w

\* ensure_tombstone_is_written.
ensure_tombstone_is_written(w) ==
    IF ~w.tombstone_written THEN consume_tombstone(w, 0) ELSE w

\* static_row{}: a static row that holds no cell.
EmptyStaticRow == 0

\* The cells of the static rows the producer hands over.
StaticRows == {1}

\* write_static_row: the flags, the size of the body and the previous row's
\* size, then the cells of static_row.
write_static_row(w, static_row) ==
    LET w1 == write(w, element("static_row", 0, "static_clustering", 0, 0, 1 + static_row))
    IN  [w1 EXCEPT !.partition_header_length = @ + (w1.data_offset - w.data_offset)]

\* consume(static_row&&).
consume_static_row(w, sr) ==
    [write_static_row(ensure_tombstone_is_written(w), sr) EXCEPT !.static_row_written = TRUE]

\* An empty static row is written whether or not the partition had one.
ensure_static_row_is_written_always(w) ==
    IF w.static_columns THEN consume_static_row(w, EmptyStaticRow) ELSE w

\* ensure_static_row_is_written_if_needed: _static_columns is not empty.
ensure_static_row_is_written_if_needed(w) ==
    IF w.static_columns /\ ~w.static_row_written
    THEN consume_static_row(w, EmptyStaticRow)
    ELSE w

\* consume(rt_marker&&).
consume_rt_marker(w, marker) == write_clustered(w, marker)

\* drain_tombstones: get_rt_start and get_rt_end.
get_rt_start(rt) == rt_marker(rt.start, rt.start_kind, rt.tomb, 0)

get_rt_end(rt) == rt_marker(rt.end, rt.end_kind, rt.tomb, 0)

\* The pending end marker is dropped and nothing is written for it.
flush_end_open_marker_silent(w) == [w EXCEPT !.end_open_marker = None]

\* The pending end marker is written while it is still held as pending.
flush_end_open_marker_held(w) ==
    [consume_rt_marker(w, w.end_open_marker[1]) EXCEPT !.end_open_marker = None]

\* drain_tombstones: flush_end_open_marker.
flush_end_open_marker(w) ==
    consume_rt_marker([w EXCEPT !.end_open_marker = None], w.end_open_marker[1])

\* The two adjacent bounds are written as an end marker and a start marker.
write_rt_boundary_as_bounds(w, rt) ==
    consume_rt_marker([flush_end_open_marker(w) EXCEPT !.end_open_marker = Some(get_rt_end(rt))],
                      get_rt_start(rt))

\* drain_tombstones: write_rt_boundary.
write_rt_boundary(w, rt) ==
    LET boundary_kind == IF rt.start_kind = "incl_start"
                         THEN "excl_end_incl_start" ELSE "incl_end_excl_start"
        end_tomb == w.end_open_marker[1].tomb
    IN  consume_rt_marker([w EXCEPT !.end_open_marker = Some(get_rt_end(rt))],
                          rt_marker(rt.start, boundary_kind, end_tomb, rt.tomb))

\* The tombstones are not compared: the pending end is always replaced.
overlapped_start_extends(w, rt) == [w EXCEPT !.end_open_marker = Some(get_rt_end(rt))]

\* The tombstones are not compared: a boundary is always written.
overlapped_start_bounds(w, rt) == write_rt_boundary(w, rt)

\* drain_tombstones: the range tombstone starts before the pending end.
overlapped_start(w, rt) ==
    IF w.end_open_marker[1].tomb # rt.tomb
    THEN write_rt_boundary(w, rt)
    ELSE [w EXCEPT !.end_open_marker = Some(get_rt_end(rt))]

\* A start marker is written for every range tombstone drained.
need_write_start_always(w, rt) == TRUE

\* drain_tombstones: need_write_start after the branches on _end_open_marker.
need_write_start(w, rt) ==
    ~(/\ w.end_open_marker # None
      /\ rt_position(rt) <= marker_position(w.end_open_marker[1]))

\* drain_tombstones: the branches of the loop on _end_open_marker.
close_or_merge(w, rt) ==
    IF w.end_open_marker = None THEN w
    ELSE IF marker_position(w.end_open_marker[1]) = rt_position(rt)
         THEN write_rt_boundary(w, rt)
    ELSE IF rt_position(rt) < marker_position(w.end_open_marker[1])
         THEN overlapped_start(w, rt)
    ELSE flush_end_open_marker(w)

\* drain_tombstones: if (need_write_start).
write_start(w, needed, rt) ==
    IF needed
    THEN consume_rt_marker([w EXCEPT !.end_open_marker = Some(get_rt_end(rt))], get_rt_start(rt))
    ELSE w

\* drain_tombstones: what the loop does with one range tombstone, up to the
\* start marker.
drain_range_tombstone(w, rt) ==
    write_start(close_or_merge(w, rt), need_write_start(w, rt), rt)

\* drain_tombstones: the part of a range tombstone that lies after pos goes
\* back to the accumulator.
trim_and_apply(w, rt, pos) ==
    IF pos # None /\ trim_front_keeps(rt, pos[1])
    THEN [w EXCEPT !.range_tombstones = rts_apply(@, trim_front(rt, pos[1]))]
    ELSE w

\* drained records, for each range tombstone the loop of the handler at hand
\* took, the pending end marker before and after it and what it wrote.
drained_entry(w, rt, w1) ==
    [rt |-> rt, before |-> w.end_open_marker, after |-> w1.end_open_marker,
     wrote |-> SubSeq(w1.data, Len(w.data) + 1, Len(w1.data))]

\* drain_tombstones: the end of the loop body.
loop_body(w, rt, w1, pos) ==
    [trim_and_apply(w1, rt, pos) EXCEPT !.drained = Append(@, drained_entry(w, rt, w1))]

\* drain_tombstones: one turn of the loop.
loop_step(w, rt, pos) ==
    loop_body(w, rt, drain_range_tombstone([w EXCEPT !.range_tombstones = rts_pop(@)], rt), pos)

\* drain_tombstones: the loop.
RECURSIVE drain_loop(_, _)
drain_loop(w, pos) ==
    IF rts_get_next(w.range_tombstones, pos) = None THEN w
    ELSE drain_loop(loop_step(w, rts_first(w.range_tombstones), pos), pos)

\* The end marker still pending is written only when it lies before a pos.
flush_behind_pos(w, pos) ==
    IF w.end_open_marker # None
       /\ pos # None /\ marker_position(w.end_open_marker[1]) < pos[1]
    THEN flush_end_open_marker(w) ELSE w

\* drain_tombstones: the end marker still pending is written when it lies
\* before pos, and when the partition ends.
flush_behind(w, pos) ==
    IF w.end_open_marker # None
       /\ (pos = None \/ marker_position(w.end_open_marker[1]) < pos[1])
    THEN flush_end_open_marker(w) ELSE w

\* drain_tombstones.
drain_tombstones(w, pos) ==
    flush_behind(
        drain_loop(ensure_static_row_is_written_if_needed(ensure_tombstone_is_written(w)), pos),
        pos)

\* A consume_new_partition that keeps the promoted index blocks of the
\* partition before.
consume_new_partition_keeping_blocks(w) ==
    LET w1 == [w EXCEPT !.start_offset = w.data_offset,
                        !.prev_row_start = w.data_offset,
                        !.index = None,
                        !.pi_tomb = 0,
                        !.first_clustering = None,
                        !.last_clustering = None,
                        !.data = <<>>]
        w2 == write(w1, element("partition_key", 0, "none", 0, 0, 1))
    IN  [w2 EXCEPT !.partition_header_length = w2.data_offset - w2.start_offset,
                   !.tombstone_written = FALSE,
                   !.static_row_written = FALSE]

\* consume_new_partition: the partition starts where the Data file ends, its
\* Index entry starts, the partition's state is reset, the key is written.
consume_new_partition(w) ==
    LET w1 == [w EXCEPT !.start_offset = w.data_offset,
                        !.prev_row_start = w.data_offset,
                        !.index = None,
                        !.promoted_index = <<>>,
                        !.pi_tomb = 0,
                        !.first_clustering = None,
                        !.last_clustering = None,
                        !.data = <<>>]
        w2 == write(w1, element("partition_key", 0, "none", 0, 0, 1))
    IN  [w2 EXCEPT !.partition_header_length = w2.data_offset - w2.start_offset,
                   !.tombstone_written = FALSE,
                   !.static_row_written = FALSE]

\* consume(clustering_row&&).
consume_clustering_row(w, key, size) ==
    write_clustered(drain_tombstones(w, Some(after_key(key))), clustering_row(key, size))

\* The range tombstone takes the place of those the accumulator holds.
consume_range_tombstone_replacing(w, rt) ==
    [drain_tombstones(w, Some(rt_position(rt))) EXCEPT
        !.range_tombstones = rts_apply(NoRangeTombstones, rt)]

\* consume(range_tombstone&&).
consume_range_tombstone(w, rt) ==
    [drain_tombstones(w, Some(rt_position(rt))) EXCEPT !.range_tombstones = rts_apply(@, rt)]

\* write_promoted_index, with the size calculate_write_size finds for it.
write_promoted_index(w) ==
    [size |-> 2 + 5 * Len(w.promoted_index),
     partition_header_length |-> w.partition_header_length,
     tomb |-> w.pi_tomb,
     blocks |-> w.promoted_index]

\* write_vint(*_index_writer, uint64_t(0)).
NoPromotedIndex == [size |-> 0, partition_header_length |-> 0, tomb |-> 0, blocks |-> <<>>]

\* consume_end_of_partition: the block in progress is added when it is not
\* the partition's first.
add_last_pi_block(w) ==
    IF w.promoted_index # <<>> /\ w.first_clustering # None THEN add_pi_block(w) ELSE w

\* A promoted index is written as soon as there is one block.
write_index_promoted_one_block(w) ==
    [w EXCEPT !.index = IF Len(w.promoted_index) < 1
                        THEN Some(NoPromotedIndex)
                        ELSE Some(write_promoted_index(w))]

\* consume_end_of_partition: what goes to the Index file.
write_index_promoted(w) ==
    [w EXCEPT !.index = IF Len(w.promoted_index) < 2
                        THEN Some(NoPromotedIndex)
                        ELSE Some(write_promoted_index(w))]

\* consume_end_of_partition.
consume_end_of_partition(w) ==
    write_index_promoted(
        add_last_pi_block(
            write(drain_tombstones(w, None), element("end_of_partition", 0, "none", 0, 0, 1))))

\* The rank of a row and of a bound in the order of the stream: the row of a
\* key lies between the bounds before and after the key.
row_rank(key) == 4 * key + 1

bound_rank(pos) == 2 * pos

(***************************************************************************)
(* The legacy (ka/la) writer: components_writer and the promoted index     *)
(***************************************************************************)

\* The sizes of what the legacy writer puts in the Data file are on the scale
\* of DesiredBlockSize: 1 for the partition key, a deletion_time and the
\* end_of_row mark, 2 for a range tombstone, and these for the cells of a row.
CellSizes == 1..2

\* A clustering row given to the legacy writer: its key, its row tombstone (0
\* for none) and the sizes of its cells.
ClusteringRows ==
    [key : Keys, tomb : {0} \cup Tombs,
     cells : {<<a>> : a \in CellSizes} \cup {<<a, b>> : a \in CellSizes, b \in {1}}]

\* A new components_writer with the sstable's _pi_write and _c_stats.  data
\* holds what the partition at hand has in the Data file: every element with
\* the offset it was written at (at), its rank in the order of the stream,
\* and, for a range tombstone, whether maybe_flush_pi_block wrote it again.
NewComponentsWriter ==
    [data_offset |-> 0, data |-> <<>>, start_offset |-> 0,
     tombstone_written |-> FALSE, range_tombstones |-> NoRangeTombstones,
     index |-> None,
     pi_write |-> [data |-> <<>>, block_first_colname |-> None,
                   block_last_colname |-> None, block_start_offset |-> 0,
                   block_next_start_offset |-> 0, tombstone_accumulator |-> <<>>]]

\* write(out, ...): the element goes to the Data file at out.offset().
file_writer_write(w, e) ==
    [w EXCEPT !.data = Append(@, [e EXCEPT !.at = w.data_offset]),
              !.data_offset = @ + e.size]

\* range_tombstone_accumulator::apply(rt): the range tombstones that end at or
\* before the start of rt are dropped, and rt is kept, in the order of the
\* ends.
accumulator_apply(acc, rt) ==
    LET open == SelectSeq(acc, LAMBDA a : rt_end_position(a) > rt_position(rt))
    IN  SelectSeq(open, LAMBDA a : rt_end_position(a) <= rt_end_position(rt))
        \o <<rt>>
        \o SelectSeq(open, LAMBDA a : rt_end_position(a) > rt_end_position(rt))

\* range_tombstone_accumulator::range_tombstones_for_row(key): the range
\* tombstones that end before the row are dropped, the others are returned.
range_tombstones_for_row(acc, key) ==
    SelectSeq(acc, LAMBDA a : bound_rank(rt_end_position(a)) > row_rank(key))

\* sstable::write_range_tombstone.
write_range_tombstone(w, rt, again) ==
    file_writer_write(w, [el |-> "range_tombstone", rank |-> bound_rank(rt_position(rt)),
                          rt |-> Some(rt), size |-> 2, at |-> 0,
                          again |-> again])

\* output_promoted_index_entry with the arguments both callers give it.
output_promoted_index_entry(w) ==
    [w EXCEPT !.pi_write.data =
        Append(@, [first |-> w.pi_write.block_first_colname[1],
                   last |-> w.pi_write.block_last_colname[1],
                   offset |-> w.pi_write.block_start_offset - w.start_offset,
                   width |-> w.data_offset - w.pi_write.block_start_offset])]

\* The loop of maybe_flush_pi_block over the range tombstones still open.
RECURSIVE repeat_range_tombstones(_, _, _)
repeat_range_tombstones(w, rts, i) ==
    IF i > Len(rts) THEN w
    ELSE repeat_range_tombstones(write_range_tombstone(w, rts[i], TRUE), rts, i + 1)

\* The same function without the loop: the new block starts with the atom.
maybe_flush_pi_block_no_repeat(w, key, colname) ==
    IF w.pi_write.block_first_colname = None
    THEN [w EXCEPT !.pi_write.block_start_offset = w.data_offset,
                   !.pi_write.block_next_start_offset = w.data_offset + DesiredBlockSize,
                   !.pi_write.block_first_colname = Some(colname),
                   !.pi_write.block_last_colname = Some(colname)]
    ELSE IF w.data_offset >= w.pi_write.block_next_start_offset
    THEN [output_promoted_index_entry(w) EXCEPT
              !.pi_write.block_start_offset = w.data_offset,
              !.pi_write.tombstone_accumulator = range_tombstones_for_row(@, key),
              !.pi_write.block_next_start_offset = w.data_offset + DesiredBlockSize,
              !.pi_write.block_first_colname = Some(colname),
              !.pi_write.block_last_colname = Some(colname)]
    ELSE [w EXCEPT !.pi_write.block_last_colname = Some(colname)]

\* sstable::maybe_flush_pi_block(out, clustering_key, colname), for a schema
\* with a clustering key.
maybe_flush_pi_block(w, key, colname) ==
    IF w.pi_write.block_first_colname = None
    THEN [w EXCEPT !.pi_write.block_start_offset = w.data_offset,
                   !.pi_write.block_next_start_offset = w.data_offset + DesiredBlockSize,
                   !.pi_write.block_first_colname = Some(colname),
                   !.pi_write.block_last_colname = Some(colname)]
    ELSE IF w.data_offset >= w.pi_write.block_next_start_offset
    THEN LET flushed == [output_promoted_index_entry(w) EXCEPT
                            !.pi_write.block_start_offset = w.data_offset,
                            !.pi_write.tombstone_accumulator =
                                range_tombstones_for_row(@, key)]
             repeated == repeat_range_tombstones(
                             flushed, flushed.pi_write.tombstone_accumulator, 1)
         IN  [repeated EXCEPT
                 !.pi_write.block_next_start_offset =
                     repeated.data_offset + DesiredBlockSize,
                 !.pi_write.block_first_colname = Some(colname),
                 !.pi_write.block_last_colname = Some(colname)]
    ELSE [w EXCEPT !.pi_write.block_last_colname = Some(colname)]

\* A column name: the clustering key, the end-of-component marker and the
\* name of the column (0 where there is none).
column_name(key, eoc, name) == [key |-> key, eoc |-> eoc, name |-> name]

\* bound_kind_to_start_marker.
bound_kind_to_start_marker(kind) == IF kind = "incl_start" THEN "start" ELSE "end"

\* sstable::index_tombstone.
index_tombstone(w, key, rt, marker) ==
    [maybe_flush_pi_block(w, key, column_name(key, marker, 0)) EXCEPT
        !.pi_write.tombstone_accumulator = accumulator_apply(@, rt)]

\* components_writer::write_tombstone.
write_tombstone(w, rt) ==
    write_range_tombstone(
        index_tombstone(w, rt.start, rt, bound_kind_to_start_marker(rt.start_kind)),
        rt, FALSE)

\* components_writer::consume(tombstone) and ensure_tombstone_is_written.
components_writer_consume_tombstone(w, t) ==
    [file_writer_write(w, [el |-> "deletion_time", rank |-> -1, rt |-> None,
                           size |-> 1, at |-> 0, again |-> FALSE])
        EXCEPT !.tombstone_written = TRUE]

components_writer_ensure_tombstone_is_written(w) ==
    IF w.tombstone_written THEN w ELSE components_writer_consume_tombstone(w, 0)

\* The loop of components_writer::drain_tombstones: get_next, write_tombstone.
RECURSIVE drain_tombstones_loop(_, _)
drain_tombstones_loop(w, pos) ==
    IF rts_get_next(w.range_tombstones, pos) = None THEN w
    ELSE drain_tombstones_loop(
             write_tombstone([w EXCEPT !.range_tombstones = rts_pop(@)],
                             rts_first(w.range_tombstones)),
             pos)

\* components_writer::drain_tombstones(pos) and drain_tombstones().
components_writer_drain_tombstones(w, pos) ==
    drain_tombstones_loop(components_writer_ensure_tombstone_is_written(w), pos)

\* sstable::maybe_write_row_tombstone.
maybe_write_row_tombstone(w, cr) ==
    IF cr.tomb = 0 THEN w
    ELSE LET rt == [start |-> cr.key, start_kind |-> "incl_start",
                    end |-> cr.key, end_kind |-> "incl_end", tomb |-> cr.tomb]
         IN  write_range_tombstone(index_tombstone(w, cr.key, rt, "none"), rt, FALSE)

\* sstable::index_and_write_column_name followed by write_cell.
index_and_write_column_name(w, key, name, size) ==
    file_writer_write(maybe_flush_pi_block(w, key, column_name(key, "none", name)),
                      [el |-> "cell", rank |-> row_rank(key), rt |-> None,
                       size |-> size, at |-> 0, again |-> FALSE])

\* The loop of sstable::write_clustered_row over the cells of the row.
RECURSIVE write_cells(_, _, _)
write_cells(w, cr, i) ==
    IF i > Len(cr.cells) THEN w
    ELSE write_cells(index_and_write_column_name(w, cr.key, i, cr.cells[i]), cr, i + 1)

\* sstable::write_clustered_row, for a row without a row marker.
write_clustered_row(w, cr) == write_cells(maybe_write_row_tombstone(w, cr), cr, 1)

\* components_writer::consume_new_partition.
components_writer_consume_new_partition(w) ==
    file_writer_write(
        [w EXCEPT !.start_offset = w.data_offset,
                  !.data = <<>>,
                  !.index = None,
                  !.pi_write.data = <<>>,
                  !.pi_write.block_start_offset = w.data_offset,
                  !.pi_write.tombstone_accumulator = <<>>,
                  !.tombstone_written = FALSE],
        [el |-> "partition_key", rank |-> -1, rt |-> None, size |-> 1,
         at |-> 0, again |-> FALSE])

\* components_writer::consume(clustering_row).
components_writer_consume_clustering_row(w, cr) ==
    write_clustered_row(components_writer_drain_tombstones(w, Some(after_key(cr.key))), cr)

\* components_writer::consume(range_tombstone).
components_writer_consume_range_tombstone(w, rt) ==
    [components_writer_drain_tombstones(w, Some(rt_position(rt))) EXCEPT
        !.range_tombstones = rts_apply(@, rt)]

\* components_writer::consume_end_of_partition: the block that is open is
\* closed when the promoted index has a block already, the promoted index
\* goes to the Index file, and the end_of_row mark to the Data file.
components_writer_consume_end_of_partition(w) ==
    LET drained == components_writer_drain_tombstones(w, None)
        closed == IF /\ drained.pi_write.data # <<>>
                     /\ drained.pi_write.block_first_colname # None
                  THEN output_promoted_index_entry(drained) ELSE drained
    IN  file_writer_write(
            [closed EXCEPT !.index = Some(closed.pi_write.data),
                           !.pi_write.data = <<>>,
                           !.pi_write.block_first_colname = None],
            [el |-> "end_of_row", rank |-> -1, rt |-> None, size |-> 1,
             at |-> 0, again |-> FALSE])

(***************************************************************************)
(* A partition of the Data file read again in a full scan                  *)
(***************************************************************************)

\* A mutation: the partition tombstone (0 for none), the cells of the static
\* row, the size of the row of each key (0 for no row) and the range
\* tombstones, as the tombstone that covers each stretch.
NoMutation ==
    [tomb |-> 0, static_row |-> EmptyStaticRow, rows |-> [k \in Keys |-> 0],
     range_tombstones |-> NoRangeTombstones]

\* What the reader holds in a partition: the mutation so far and the range
\* tombstone a start marker has opened, if any.
NewRead == [ok |-> TRUE, done |-> FALSE, mutation |-> NoMutation, open |-> None]

StartKinds == {"incl_start", "excl_start"}

EndKinds == {"incl_end", "excl_end"}

\* The position of a marker read: a boundary stands where its start stands.
read_position(marker) ==
    2 * marker.clustering
        + (IF marker.kind \in {"incl_start", "excl_end", "excl_end_incl_start"} THEN 0 ELSE 1)

\* The open range tombstone is closed at pos: it is yielded from where it
\* was opened to pos.  An end that nothing has opened, or that carries
\* another tombstone than the one opened, is malformed.
read_close(r, pos, tomb) ==
    IF r.open = None \/ r.open[1].tomb # tomb \/ pos < r.open[1].pos
    THEN [r EXCEPT !.ok = FALSE]
    ELSE [r EXCEPT !.open = None,
                   !.mutation.range_tombstones =
                       rts_apply(@, range_tombstone(r.open[1].pos, pos, tomb))]

\* A start marker opens a range tombstone; one may not be open already.
read_open(r, pos, tomb) ==
    IF r.open # None THEN [r EXCEPT !.ok = FALSE]
    ELSE [r EXCEPT !.open = Some([pos |-> pos, tomb |-> tomb])]

\* A boundary closes with the old tombstone and opens with the new one.
read_marker(r, marker) ==
    IF marker.kind \in StartKinds THEN read_open(r, read_position(marker), marker.tomb)
    ELSE IF marker.kind \in EndKinds THEN read_close(r, read_position(marker), marker.tomb)
    ELSE LET closed == read_close(r, read_position(marker), marker.tomb)
         IN  IF closed.ok
             THEN read_open(closed, read_position(marker), marker.boundary_tomb)
             ELSE closed

\* One element of the partition.
read_element(r, e) ==
    CASE e.el = "partition_key" -> r
      [] e.el = "deletion_time" -> [r EXCEPT !.mutation.tomb = e.tomb]
      [] e.el = "static_row" -> [r EXCEPT !.mutation.static_row = e.size - 1]
      [] e.el = "row" ->
            IF r.mutation.rows[e.clustering] # 0 THEN [r EXCEPT !.ok = FALSE]
            ELSE [r EXCEPT !.mutation.rows[e.clustering] = e.size]
      [] e.el = "marker" -> read_marker(r, e)
      [] e.el = "end_of_partition" -> [r EXCEPT !.done = TRUE, !.ok = r.open = None]

\* The elements are read in the order of the file, up to the end of the
\* partition.
RECURSIVE read_elements(_, _, _)
read_elements(data, i, r) ==
    IF i > Len(data) \/ ~r.ok \/ r.done THEN r
    ELSE read_elements(data, i + 1, read_element(r, data[i]))

\* read_rows: the mutation of the partition, then the end of the stream.
read_rows(data) == read_elements(data, 1, NewRead)

(***************************************************************************)
(* A partition read by a forwarding reader through clustering sub-ranges   *)
(***************************************************************************)

\* A clustering sub-range runs from a bound position to a later one; the
\* sub-ranges of a forwarding read do not overlap and go up.
SubRanges == {p \in (0..MaxBound) \X (0..MaxBound) : p[1] < p[2]}

SubRangeSequences ==
    {<<a>> : a \in SubRanges}
        \cup {<<p[1], p[2]>> : p \in {q \in SubRanges \X SubRanges : q[1][2] <= q[2][1]}}

\* The rank of a row or a marker of the Data file, and of the last clustering
\* of a promoted-index block, in the order of the partition.
element_rank(e) ==
    IF e.kind = "clustering" THEN row_rank(e.clustering) ELSE bound_rank(read_position(e))

\* What the forwarding reader holds: the mutation it has yielded, the range
\* tombstone that is open with the position it was opened at, and the element
\* of the Data file it reads next.
NewForwardingRead == [ok |-> TRUE, mutation |-> NoMutation, open |-> None, next |-> 1]

\* The reader yields the partition's header before the first sub-range: the
\* partition tombstone and the static row.
RECURSIVE read_partition_header(_, _)
read_partition_header(data, r) ==
    IF r.next > Len(data) \/ data[r.next].el \in {"row", "marker", "end_of_partition"}
    THEN r
    ELSE read_partition_header(data, [read_element(r, data[r.next]) EXCEPT !.next = @ + 1])

\* A range tombstone is yielded for the stretch from s to e.  A stretch that
\* has been yielded before is yielded twice.
yield_range_tombstone(r, s, e, tomb) ==
    IF s >= e THEN r
    ELSE IF \E i \in s..(e - 1) : r.mutation.range_tombstones[i] # 0
    THEN [r EXCEPT !.ok = FALSE]
    ELSE [r EXCEPT !.mutation.range_tombstones = rts_apply(@, range_tombstone(s, e, tomb))]

\* The greater of two positions.
later(a, b) == IF a > b THEN a ELSE b

\* The promoted index is used to skip to the first block that can hold the
\* start of the sub-range; the range tombstone open there is the open marker
\* of the block before.  Without a promoted index, or when the block is not
\* ahead, the reader reads on from where it is.
skip_to_block(data, index, r, from) ==
    LET blocks == IF index = None THEN <<>> ELSE index[1].blocks
        ahead == {b \in DOMAIN blocks : element_rank(blocks[b].last) >= bound_rank(from)}
        b == CHOOSE c \in ahead : \A d \in ahead : c <= d
        target == {i \in DOMAIN data : data[i].at = data[1].at + blocks[b].offset}
        i == CHOOSE j \in target : TRUE
    IN  IF blocks = <<>> THEN r
        ELSE IF ahead = {} THEN [r EXCEPT !.next = Len(data), !.open = None]
        ELSE IF target = {} THEN [r EXCEPT !.ok = FALSE]
        ELSE IF i <= r.next THEN r
        ELSE [r EXCEPT !.next = i,
                       !.open = IF b = 1 \/ blocks[b - 1].open_marker = None THEN None
                                ELSE Some([pos |-> from,
                                           tomb |-> blocks[b - 1].open_marker[1]])]

\* A marker read inside or before the sub-range.  An end closes the open
\* range tombstone, which is yielded from where it was opened, or from the
\* start of the sub-range, to the marker; an end met with nothing open is
\* suppressed.  A start opens; a boundary does both.
forwarding_read_marker(r, marker, from) ==
    LET pos == read_position(marker)
        closed == IF marker.kind \in StartKinds \/ r.open = None THEN r
                  ELSE IF r.open[1].tomb # marker.tomb THEN [r EXCEPT !.ok = FALSE]
                  ELSE [yield_range_tombstone(r, later(r.open[1].pos, from), pos, marker.tomb)
                           EXCEPT !.open = None]
    IN  IF marker.kind \in EndKinds THEN closed
        ELSE [closed EXCEPT !.open =
                 Some([pos |-> pos,
                       tomb |-> IF marker.kind \in StartKinds THEN marker.tomb
                                ELSE marker.boundary_tomb])]

\* The elements are read up to the end of the sub-range.  A row before the
\* start is passed over.  At the end the open range tombstone is yielded up
\* to there, and stays open.
RECURSIVE read_sub_range(_, _, _, _)
read_sub_range(data, r, from, to) ==
    IF ~r.ok \/ r.next > Len(data) \/ data[r.next].el = "end_of_partition" THEN r
    ELSE IF element_rank(data[r.next]) >= bound_rank(to)
    THEN IF r.open = None THEN r
         ELSE yield_range_tombstone(r, later(r.open[1].pos, from), to, r.open[1].tomb)
    ELSE IF data[r.next].el = "row"
    THEN read_sub_range(
             data,
             [r EXCEPT !.next = @ + 1,
                       !.mutation.rows[data[r.next].clustering] =
                           IF element_rank(data[r.next]) >= bound_rank(from)
                           THEN data[r.next].size ELSE @],
             from, to)
    ELSE read_sub_range(
             data,
             [forwarding_read_marker(r, data[r.next], from) EXCEPT !.next = @ + 1],
             from, to)

\* fast_forward_to(from, to).
fast_forward_to(data, index, r, range) ==
    read_sub_range(data, skip_to_block(data, index, r, range[1]), range[1], range[2])

\* The forwarding read of a partition through a sequence of sub-ranges.
RECURSIVE forwarding_read(_, _, _, _, _)
forwarding_read(data, index, r, ranges, i) ==
    IF i > Len(ranges) THEN r
    ELSE forwarding_read(data, index, fast_forward_to(data, index, r, ranges[i]), ranges, i + 1)

\* What a reader that does not forward yields of the mutation when it is
\* restricted to the sub-ranges: the rows and the stretches inside one.
restricted(mutation, ranges) ==
    [mutation EXCEPT
        !.rows = [k \in Keys |->
                     IF \E i \in DOMAIN ranges :
                            /\ ranges[i][1] <= bound_position(k, "incl_start")
                            /\ after_key(k) <= ranges[i][2]
                     THEN mutation.rows[k] ELSE 0],
        !.range_tombstones =
            [s \in DOMAIN mutation.range_tombstones |->
                IF \E i \in DOMAIN ranges : ranges[i][1] <= s /\ s + 1 <= ranges[i][2]
                THEN mutation.range_tombstones[s] ELSE 0]]

(***************************************************************************)
(* The Summary component: sampling, sealing, its bytes on disk             *)
(***************************************************************************)

\* The partition keys of the tables, as the bytes of key::from_partition_key.
PartitionKeys == {<<1>>, <<2>>, <<1, 2>>}

\* dht::global_partitioner().get_token: the order of tokens is not the order
\* of the keys' bytes.
get_token(key) == IF key = <<1>> THEN 2 ELSE 1

RECURSIVE bytes_less(_, _)
\* The order of two keys' bytes.
bytes_less(a, b) ==
    IF b = <<>> THEN FALSE
    ELSE IF a = <<>> THEN TRUE
    ELSE IF a[1] # b[1] THEN a[1] < b[1]
    ELSE bytes_less(Tail(a), Tail(b))

\* The order of decorated keys: by token, then by the key's bytes.
dk_less(a, b) ==
    \/ get_token(a) < get_token(b)
    \/ get_token(a) = get_token(b) /\ bytes_less(a, b)

\* The values summary_byte_cost() returns in the configurations at hand.
ByteCosts == {1, 2}

\* The bytes a partition takes in the Data file.
PartitionSizes == {4, 30}

\* index_sampling_state as it is constructed.
NewSamplingState(cost) ==
    [next_data_offset_to_write_summary |-> 0, partition_count |-> 0,
     summary_byte_cost |-> cost]

\* A summary as it is constructed.
NewSummary ==
    [header |-> [size |-> 0, memory_size |-> 0],
     positions |-> <<>>, entries |-> <<>>, first_key |-> <<>>, last_key |-> <<>>]

\* summary::operator bool: the summary has entries.
summary_loaded(s) == s.entries # <<>>

\* prepare_summary: the fields of the header that do not depend on the
\* entries, and memory_size.
prepare_summary(s) == [s EXCEPT !.header.memory_size = 0]

\* An entry is added at every call.
maybe_add_summary_entry_always(s, key, data_offset, index_offset, state) ==
    [s |-> [s EXCEPT !.entries = Append(@, [key |-> key, position |-> index_offset])],
     state |-> [state EXCEPT
                   !.partition_count = @ + 1,
                   !.next_data_offset_to_write_summary =
                       IF data_offset >= @
                       THEN @ + state.summary_byte_cost * (8 + 2 + Len(key))
                       ELSE @]]

\* The threshold moves by the cost alone.
maybe_add_summary_entry_flat(s, key, data_offset, index_offset, state) ==
    IF data_offset >= state.next_data_offset_to_write_summary
    THEN [s |-> [s EXCEPT !.entries = Append(@, [key |-> key, position |-> index_offset])],
          state |-> [state EXCEPT
                        !.partition_count = @ + 1,
                        !.next_data_offset_to_write_summary = @ + state.summary_byte_cost]]
    ELSE [s |-> s, state |-> [state EXCEPT !.partition_count = @ + 1]]

\* components_writer::maybe_add_summary_entry: the summary and the sampling
\* state after the call.
maybe_add_summary_entry(s, key, data_offset, index_offset, state) ==
    IF data_offset >= state.next_data_offset_to_write_summary
    THEN [s |-> [s EXCEPT !.entries = Append(@, [key |-> key, position |-> index_offset])],
          state |-> [state EXCEPT
                        !.partition_count = @ + 1,
                        !.next_data_offset_to_write_summary =
                            @ + state.summary_byte_cost * (8 + 2 + Len(key))]]
    ELSE [s |-> s, state |-> [state EXCEPT !.partition_count = @ + 1]]

\* sizeof(uint32_t), the width of a position.
PositionSize == 4

\* sizeof(e.position), the width of an entry's offset into the Index.
EntryPositionSize == 8

RECURSIVE seal_positions(_, _, _)
\* seal_summary's loop: the positions of the entries from the i-th on, the
\* last element being memory_size after the loop.
seal_positions(entries, i, memory_size) ==
    IF i > Len(entries) THEN <<memory_size>>
    ELSE <<memory_size>> \o
         seal_positions(entries, i + 1, memory_size + Len(entries[i].key) + EntryPositionSize)

\* The positions are counted from the first entry.
seal_summary_from_entries(s, first_key, last_key) ==
    LET ps == seal_positions(s.entries, 1, 0)
    IN  [s EXCEPT !.header.size = Len(s.entries),
                  !.header.memory_size = ps[Len(ps)] + Len(s.entries) * PositionSize,
                  !.positions = @ \o SubSeq(ps, 1, Len(ps) - 1),
                  !.first_key = first_key[1],
                  !.last_key = IF last_key # None THEN last_key[1] ELSE first_key[1]]

\* seal_summary.
seal_summary(s, first_key, last_key) ==
    LET ps == seal_positions(s.entries, 1, Len(s.entries) * PositionSize)
    IN  [s EXCEPT !.header.size = Len(s.entries),
                  !.header.memory_size = ps[Len(ps)],
                  !.positions = @ \o SubSeq(ps, 1, Len(ps) - 1),
                  !.first_key = first_key[1],
                  !.last_key = IF last_key # None THEN last_key[1] ELSE first_key[1]]

\* sizeof(summary::header): min_index_interval, size, memory_size,
\* sampling_level and size_at_full_sampling.
HeaderSize == 24

\* The width of the length of first_key and of last_key.
KeyLengthSize == 4

RECURSIVE little_endian(_, _)
\* The n bytes of an unsigned number, the lowest byte first.
little_endian(v, n) ==
    IF n = 0 THEN <<>> ELSE <<v % 256>> \o little_endian(v \div 256, n - 1)

RECURSIVE big_endian(_, _)
\* The n bytes of an unsigned number, the highest byte first.
big_endian(v, n) ==
    IF n = 0 THEN <<>> ELSE big_endian(v \div 256, n - 1) \o <<v % 256>>

RECURSIVE read_le(_)
\* seastar::read_le.
read_le(b) == IF b = <<>> THEN 0 ELSE b[1] + 256 * read_le(Tail(b))

RECURSIVE read_be(_)
\* The number a big-endian field holds.
read_be(b) == IF b = <<>> THEN 0 ELSE read_be(SubSeq(b, 1, Len(b) - 1)) * 256 + b[Len(b)]

RECURSIVE Concat(_)
\* The sequences of a sequence, one after the other.
Concat(ss) == IF ss = <<>> THEN <<>> ELSE Head(ss) \o Concat(Tail(ss))

\* write(summary_entry): the key's bytes, then the position.
write_summary_entry(e) == e.key \o little_endian(e.position, EntryPositionSize)

\* write(disk_string): the length, then the bytes.
write_disk_string(key) == big_endian(Len(key), KeyLengthSize) \o key

\* write(summary): the header, the positions, the entries, the two keys.
\* The fields of the header that are not modelled are zero.
write_summary_bytes(s) ==
    big_endian(0, 4) \o big_endian(s.header.size, 4) \o big_endian(s.header.memory_size, 8)
        \o big_endian(0, 4) \o big_endian(0, 4)
        \o Concat([i \in DOMAIN s.positions |-> little_endian(s.positions[i], PositionSize)])
        \o Concat([i \in DOMAIN s.entries |-> write_summary_entry(s.entries[i])])
        \o write_disk_string(s.first_key) \o write_disk_string(s.last_key)

\* read_exactly(n) of a stream that stands at byte `at` of the file.
read_exactly(file, at, n) ==
    IF at >= Len(file) THEN <<>>
    ELSE SubSeq(file, at + 1, IF n > Len(file) - at THEN Len(file) ELSE at + n)

\* The difference of two positions, a uint32_t: a negative difference wraps
\* to a size that is beyond every file.
WrappedSize == 2147483647

unsigned_difference(next, pos) == IF next >= pos THEN next - pos ELSE WrappedSize

\* parse(summary), the header: each field is read and assigned in turn; a
\* short read of a field throws.
parse_summary_header(file, s) ==
    [ok |-> Len(file) >= HeaderSize,
     s |-> [s EXCEPT
              !.header.size = IF Len(file) >= 8 THEN read_be(SubSeq(file, 5, 8)) ELSE @,
              !.header.memory_size = IF Len(file) >= 16 THEN read_be(SubSeq(file, 9, 16)) ELSE @]]

\* parse(summary), the positions: they are read in one piece; memory_size is
\* pushed after them as the boundary of the last entry.
parse_summary_positions(file, s) ==
    LET len == s.header.size * PositionSize
        buf == read_exactly(file, HeaderSize, len)
    IN  IF Len(buf) # len THEN [ok |-> FALSE, s |-> s]
        ELSE [ok |-> TRUE,
              s |-> [s EXCEPT !.positions =
                        [i \in 1..s.header.size |->
                            read_le(SubSeq(buf, (i - 1) * PositionSize + 1, i * PositionSize))]
                        \o <<s.header.memory_size>>]]

\* parse(disk_string) at byte `at`: the string and where the stream stands
\* after it.
parse_disk_string(file, at) ==
    LET size == read_exactly(file, at, KeyLengthSize)
        len == read_be(size)
        buf == read_exactly(file, at + KeyLengthSize, len)
    IN  IF Len(size) # KeyLengthSize \/ Len(buf) # len
        THEN [ok |-> FALSE, value |-> <<>>, at |-> at]
        ELSE [ok |-> TRUE, value |-> buf, at |-> at + KeyLengthSize + len]

\* parse(summary), first_key and last_key, after a seek to the end of the
\* entries: first_key is assigned before last_key is read.
parse_summary_keys(file, s) ==
    LET first == parse_disk_string(file, HeaderSize + s.header.memory_size)
        last == parse_disk_string(file, first.at)
    IN  IF ~first.ok THEN [ok |-> FALSE, s |-> s]
        ELSE IF ~last.ok THEN [ok |-> FALSE, s |-> [s EXCEPT !.first_key = first.value]]
        ELSE [ok |-> TRUE, s |-> [s EXCEPT !.first_key = first.value, !.last_key = last.value]]

RECURSIVE parse_summary_entries(_, _, _)
\* parse(summary), the entries: the stream is read on from byte `at`, each
\* entry as long as the distance to the next position; positions.pop_back()
\* follows the last entry.
parse_summary_entries(file, at, s) ==
    IF Len(s.entries) = s.header.size
    THEN [ok |-> TRUE, s |-> [s EXCEPT !.positions = SubSeq(@, 1, Len(@) - 1)]]
    ELSE LET idx == Len(s.entries) + 1
             entrysize == unsigned_difference(s.positions[idx + 1], s.positions[idx])
             buf == read_exactly(file, at, entrysize)
             keysize == entrysize - EntryPositionSize
         IN  IF Len(buf) # entrysize \/ keysize < 0 THEN [ok |-> FALSE, s |-> s]
             ELSE parse_summary_entries(file, at + entrysize,
                      [s EXCEPT !.entries = Append(@,
                          [key |-> SubSeq(buf, 1, keysize),
                           position |-> read_le(SubSeq(buf, keysize + 1, entrysize))])])

\* parse(summary): whether it returned without an exception, and the summary
\* as it was left.
parse_summary(file, s) ==
    LET h == parse_summary_header(file, s)
        p == parse_summary_positions(file, h.s)
        k == parse_summary_keys(file, p.s)
    IN  IF ~h.ok THEN h
        ELSE IF ~p.ok THEN p
        ELSE IF ~k.ok THEN k
        ELSE parse_summary_entries(file, k.s.positions[1] + HeaderSize, k.s)

\* The partitions one table is given.
MaxTablePartitions == 3

\* The longest Summary file of such a table: its keys have two bytes at most.
MaxSummarySize ==
    HeaderSize + MaxTablePartitions * (PositionSize + 2 + EntryPositionSize)
        + 2 * (KeyLengthSize + 2)

\* Where the stream of a file stands after its last element.
end_offset(file) == IF file = <<>> THEN 0 ELSE file[Len(file)].at + file[Len(file)].size

\* cfg.max_sstable_size, in the bytes of the model's partitions.
MaxSSTableSizes == {6, 60}

\* What consume_end_of_partition looks at: whether the table has a
\* CompressionInfo component, the length of the compressed Data file so
\* far, the configured maximum, and what it returned last.
NewDataWriter(compression, max_sstable_size) ==
    [compression |-> compression, compressed_file_length |-> 0,
     max_sstable_size |-> max_sstable_size, returned |-> None]

\* The compressed output stream adds what it has written of `size` bytes to
\* compressed_file_length.
compressed(dw, size) ==
    [dw EXCEPT !.compressed_file_length = IF dw.compression THEN @ + (size + 1) \div 2 ELSE @]

\* get_data_offset, get_offset: offset is the file writer's.
get_data_offset(dw, offset) ==
    IF dw.compression THEN dw.compressed_file_length ELSE offset

\* The writer goes on when the offset is at the maximum.
stop_iteration_past(data_offset, max_sstable_size) ==
    IF data_offset <= max_sstable_size THEN "no" ELSE "yes"

\* consume_end_of_partition: the value returned.
stop_iteration(data_offset, max_sstable_size) ==
    IF data_offset < max_sstable_size THEN "no" ELSE "yes"

\* consume_end_of_partition of a writer whose Data file writer stands at
\* offset.
consume_end_of_partition_returns(dw, offset) ==
    [dw EXCEPT !.returned =
        Some(stop_iteration(get_data_offset(dw, offset), dw.max_sstable_size))]

\* The entry points at its own place in the Index.
index_entry_of_index(key, position, at) ==
    [key |-> key, position |-> at, at |-> at, size |-> 2 + Len(key) + 1 + 1]

\* An entry of the Index file without promoted index: the key with its
\* length, the position in the Data file and a promoted index size of zero.
index_entry(key, position, at) ==
    [key |-> key, position |-> position, at |-> at, size |-> 2 + Len(key) + 1 + 1]

RECURSIVE consume_entries(_, _, _, _, _)
\* summary_generator::consume_entry for the entries of the Index from the
\* i-th on: the summary, the sampling state and the two keys after the last.
consume_entries(index, i, added, first_key, last_key) ==
    IF i > Len(index)
    THEN [s |-> added.s, state |-> added.state, first_key |-> first_key, last_key |-> last_key]
    ELSE consume_entries(index, i + 1,
             maybe_add_summary_entry(added.s, index[i].key, index[i].position, index[i].at,
                                     added.state),
             IF first_key = None THEN Some(index[i].key) ELSE first_key,
             IF first_key = None THEN last_key ELSE Some(index[i].key))

\* The generated summary is sealed with what consume_entries returned.
seal_generated(g) == seal_summary(g.s, g.first_key, g.last_key)

\* sstable::generate_summary.
generate_summary(s, index, cost) ==
    IF summary_loaded(s) THEN s
    ELSE seal_generated(consume_entries(index, 1,
             [s |-> prepare_summary(s), state |-> NewSamplingState(cost)], None, None))

\* What read_simple<Summary> leaves of the component: the file may be missing.
read_simple_summary(file, s) ==
    IF file = None THEN [ok |-> FALSE, s |-> s] ELSE parse_summary(file[1], s)

\* handle_exception of read_summary: the summary is generated when the read
\* threw.
recover_summary(read, index, cost) ==
    IF read.ok THEN read.s ELSE generate_summary(read.s, index, cost)

\* sstable::read_summary of an object whose TOC was read: the Summary is
\* listed in the TOC or not.
read_summary(s, listed, file, index, cost) ==
    IF summary_loaded(s) THEN s
    ELSE IF listed THEN recover_summary(read_simple_summary(file, s), index, cost)
    ELSE generate_summary(s, index, cost)

(***************************************************************************)
(* Statistics and Scylla metadata: tagged entries on disk                  *)
(***************************************************************************)

\* sizeof(uint32_t): the width of a count, a tag, a size and an offset.
WordSize == 4

\* The entries one component is given.
MaxEntries == 3

\* The tags of scylla_metadata this reader knows, and a tag of a later
\* version.
KnownTags == {1, 2}

UnknownTags == {9}

\* metadata_type.
metadata_type == [Validation |-> 0, Compaction |-> 1, Stats |-> 2, Serialization |-> 3]

\* The metadata types of Statistics this reader knows, and a type of a later
\* version.
KnownTypes == {metadata_type.Validation, metadata_type.Stats, metadata_type.Serialization}

UnknownTypes == {7}

\* The values of the known members, and the payloads of the unknown ones,
\* which have no structure the reader knows.
MemberValues == {<<5>>, <<6, 6>>}

UnknownPayloads == {<<>>, <<0>>, <<0, 0, 0, 1, 8>>}

\* write of a member's value and parse of it: the value has its own length in
\* front.
write_member(value) == write_disk_string(value)

parse_member(file, at) == parse_disk_string(file, at)

\* The bytes of an entry's payload.
payload(e) == IF e.known THEN write_member(e.value) ELSE e.value

\* write(disk_set_of_tagged_union): the number of entries, then for each its
\* tag, the size of its payload and the payload.
write_tagged_union(entries) ==
    big_endian(Len(entries), WordSize)
        \o Concat([i \in DOMAIN entries |->
                      big_endian(entries[i].tag, WordSize)
                          \o big_endian(Len(payload(entries[i])), WordSize)
                          \o payload(entries[i])])

\* s.data.emplace(tag, value): the first value of a tag stays.
emplace(data, tag, value) ==
    IF \E i \in DOMAIN data : data[i].tag = tag THEN data
    ELSE Append(data, [tag |-> tag, value |-> value])

\* What a parse has made of a component so far: whether it goes on, the
\* error it threw, the members it has, and for every entry it met where the
\* stream stood before and after the entry's payload.
NewParse == [ok |-> TRUE, error |-> "", data |-> <<>>, met |-> <<>>]

Thrown(r, error) == [r EXCEPT !.ok = FALSE, !.error = error]

Met(r, tag, at, after) == [r EXCEPT !.met = Append(@, [tag |-> tag, at |-> at, after |-> after])]

\* The payload of an unknown tag is left where it is.
lookup_and_parse_unskipped(file, at, tag, size, r) ==
    IF tag \notin KnownTags
    THEN [r |-> Met(r, tag, at, at), at |-> at]
    ELSE LET member == parse_member(file, at)
         IN  IF ~member.ok
             THEN [r |-> Thrown(r, "bufsize_mismatch"), at |-> at]
             ELSE [r |-> Met([r EXCEPT !.data = emplace(@, tag, member.value)],
                             tag, at, member.at),
                   at |-> member.at]

\* serdes::lookup_and_parse with the stream at byte `at`: read_exactly(size)
\* is discarded for a tag that is not in the map, the member's parser runs
\* for one that is.
lookup_and_parse(file, at, tag, size, r) ==
    IF tag \notin KnownTags
    THEN [r |-> Met(r, tag, at, at + Len(read_exactly(file, at, size))),
          at |-> at + Len(read_exactly(file, at, size))]
    ELSE LET member == parse_member(file, at)
         IN  IF ~member.ok
             THEN [r |-> Thrown(r, "bufsize_mismatch"), at |-> at]
             ELSE [r |-> Met([r EXCEPT !.data = emplace(@, tag, member.value)],
                             tag, at, member.at),
                   at |-> member.at]

\* The entry is looked up with the tag and the size that were parsed.
looked_up(file, at, new_key, new_size, r) ==
    lookup_and_parse(file, at + 2 * WordSize, read_be(new_key), read_be(new_size), r)

RECURSIVE parse_tagged_entries(_, _, _)
\* parse(disk_set_of_tagged_union), the loop over nr_elements: new_key and
\* new_size are parsed, then the entry is looked up.
parse_tagged_entries(file, left, p) ==
    IF left = 0 \/ ~p.r.ok THEN p.r
    ELSE IF Len(read_exactly(file, p.at, 2 * WordSize)) # 2 * WordSize
         THEN Thrown(p.r, "bufsize_mismatch")
         ELSE parse_tagged_entries(file, left - 1,
                  looked_up(file, p.at, read_exactly(file, p.at, WordSize),
                            read_exactly(file, p.at + WordSize, WordSize), p.r))

\* parse(disk_set_of_tagged_union).
parse_tagged_union(file) ==
    LET nr_elements == read_exactly(file, 0, WordSize)
    IN  IF Len(nr_elements) # WordSize THEN Thrown(NewParse, "bufsize_mismatch")
        ELSE parse_tagged_entries(file, read_be(nr_elements), [r |-> NewParse, at |-> WordSize])

RECURSIVE SizeOfPayloads(_, _)
\* The bytes the payloads of the first n entries take.
SizeOfPayloads(entries, n) ==
    IF n = 0 THEN 0 ELSE SizeOfPayloads(entries, n - 1) + Len(payload(entries[n]))

\* Where the payload of the i-th entry of a Statistics file is: after the
\* map of offsets and the payloads before it.
offset_of(entries, i) ==
    WordSize + Len(entries) * 2 * WordSize + SizeOfPayloads(entries, i - 1)

\* write(statistics): the map of the types to the offsets, then the contents
\* in the order of the map.
write_statistics_bytes(entries) ==
    big_endian(Len(entries), WordSize)
        \o Concat([i \in DOMAIN entries |->
                      big_endian(entries[i].tag, WordSize)
                          \o big_endian(offset_of(entries, i), WordSize)])
        \o Concat([i \in DOMAIN entries |-> payload(entries[i])])

\* parse of s.offsets: the elements as they are in the file, none when the
\* file is too short for them.
parse_offsets(file) ==
    LET nr == read_exactly(file, 0, WordSize)
        len == read_be(nr) * 2 * WordSize
        buf == read_exactly(file, WordSize, len)
    IN  IF Len(nr) # WordSize \/ Len(buf) # len THEN [ok |-> FALSE, elements |-> <<>>]
        ELSE [ok |-> TRUE,
              elements |->
                  [i \in 1..read_be(nr) |->
                      [first |-> read_be(SubSeq(buf, (i - 1) * 2 * WordSize + 1,
                                                (i - 1) * 2 * WordSize + WordSize)),
                       second |-> read_be(SubSeq(buf, (i - 1) * 2 * WordSize + WordSize + 1,
                                                 i * 2 * WordSize))]]]

RECURSIVE sort_by_first(_)
\* boost::sort of the elements by their type.
sort_by_first(elements) ==
    IF elements = <<>> THEN <<>>
    ELSE LET least == CHOOSE i \in DOMAIN elements :
                          \A j \in DOMAIN elements :
                              elements[i].first < elements[j].first
                              \/ (elements[i].first = elements[j].first /\ i <= j)
         IN  <<elements[least]>>
                 \o sort_by_first([k \in 1..(Len(elements) - 1) |->
                                      IF k < least THEN elements[k] ELSE elements[k + 1]])

\* parse<Child>(v, in, s.contents[val.first]) after in.seek(val.second).
parse_contents(file, val, r) ==
    LET member == parse_member(file, val.second)
    IN  IF ~member.ok THEN Thrown(r, "bufsize_mismatch")
        ELSE Met([r EXCEPT !.data = Append(@, [tag |-> val.first, value |-> member.value])],
                 val.first, val.second, member.at)

\* The serialization header is parsed whatever the version is.
parse_element_any_version(v, file, val, r) ==
    IF val.first \in KnownTypes THEN parse_contents(file, val, r)
    ELSE Met(r, val.first, val.second, val.second)

\* parse(statistics), the switch on the type of an element.
parse_element(v, file, val, r) ==
    IF val.first \in {metadata_type.Validation, metadata_type.Compaction, metadata_type.Stats}
    THEN parse_contents(file, val, r)
    ELSE IF val.first = metadata_type.Serialization
    THEN IF v # "mc"
         THEN Thrown(r, "Statistics is malformed: SSTable is in 2.x format but contains serialization header.")
         ELSE parse_contents(file, val, r)
    ELSE Met(r, val.first, val.second, val.second)

RECURSIVE parse_elements(_, _, _, _, _)
\* parse(statistics), do_for_each over the sorted elements.
parse_elements(v, file, elements, i, r) ==
    IF i > Len(elements) \/ ~r.ok THEN r
    ELSE parse_elements(v, file, elements, i + 1, parse_element(v, file, elements[i], r))

\* parse(statistics).
parse_statistics(v, file) ==
    LET offsets == parse_offsets(file)
    IN  IF ~offsets.ok THEN Thrown(NewParse, "bufsize_mismatch")
        ELSE parse_elements(v, file, sort_by_first(offsets.elements), 1, NewParse)

(***************************************************************************)
(* State                                                                   *)
(***************************************************************************)

VARIABLES
    files,      \* files[d]: the names of the generation's files in directory d
    text,       \* text[d][n]: the lines of TOC file n of directory d
    unsynced,   \* unsynced[d]: entries of d changed since d was last flushed
    wst,        \* wst[w]: "idle", "run", "toc_abort"
    wprog,      \* wprog[w]: the steps of the operation in progress on the object
    wpc,        \* wpc[w]: the step of wprog[w] about to be taken
    werr,       \* werr[w]: one of the calls issued together has failed
    wcfg,       \* wcfg[w]: the writer's configuration and schema choices
    recognized_components,    \* the sstable object's _recognized_components
    unrecognized_components,  \* the sstable object's _unrecognized_components
    wopen,      \* wopen[w]: the output streams (Data, Index) the writer holds open
    wq,         \* wq[w]: the files create_links has still to link
    load,       \* load[w]: "none", "ok", "malformed": what read_toc ended with
    dst,        \* remove_by_toc_name: "idle", "run", "failed", "done"
    dpc,        \* its step
    dq,         \* the TOC lines it has still to unlink
    drenamed,   \* history: it found a TOC and has renamed it
    dcrashed,   \* history: a delete was cut by a crash and none has returned since
    sst,        \* remove_sstable_with_temp_toc: "idle", "run", "aborted", "done"
    spc,        \* its step
    sq,         \* the component map entries it has still to visit
    writer_m,   \* the sstable_writer_m object and what it has written
    stream,     \* the caller's place in the stream it feeds the writer
    components_writer,    \* the legacy writer: components_writer and the sstable's
                          \* _pi_write, and what it has written of a partition
    table,      \* "none", or the table's stage: "write", "sealed", "stored", "read"
    summary,    \* _components->summary of the object that writes or reads the table
    index_sampling_state, \* the writer's index_sampling_state
    first_last_key,       \* the writer's _first_key and _last_key
    index_file, \* the entries of the table's Index file
    data_file,  \* the partitions of the table's Data file
    summary_file,         \* the table's Summary: listed in the TOC or not, its bytes
    data_writer,          \* the Data file's lengths, cfg.max_sstable_size and what
                          \* consume_end_of_partition returned last
    component,  \* a Statistics or Scylla component on disk: its entries and bytes
    parsed,     \* what the parse of the component returned, once it was read
    toc_fd,     \* toc_fd[w]: the name that leads to the file write_toc holds open:
                \* "closed", "TemporaryTOC", "TOC", "unlinked"
    started,    \* the operations a table that races them has started
    stopped     \* history: "stopped" when the files in dir are what a writer that
                \* stopped before its rename left behind, "removed" once
                \* remove_sstable_with_temp_toc has unlinked their TemporaryTOC,
                \* "no" otherwise

vars == <<files, text, unsynced, wst, wprog, wpc, werr, wcfg, recognized_components,
          unrecognized_components, wopen, wq, load, dst, dpc, dq, drenamed, dcrashed,
          sst, spc, sq, writer_m, stream, components_writer, table, summary, index_sampling_state,
          first_last_key, index_file, data_file, summary_file, data_writer, component,
          parsed, toc_fd, started, stopped>>

fsVars == <<files, text, unsynced>>

objVars == <<recognized_components, unrecognized_components, load>>

delVars == <<dst, dpc, dq, drenamed, dcrashed>>

sweepVars == <<sst, spc, sq>>

streamVars == <<writer_m, stream, components_writer>>

summaryVars == <<table, summary, index_sampling_state, first_last_key, index_file,
                 data_file, summary_file, data_writer>>

\* What the components hold, as opposed to their names in the directories.
parseVars == <<component, parsed>>

\* What the components hold, whatever the operations on their names.
dataVars == <<streamVars, summaryVars, parseVars, started>>

contentVars == <<dataVars, toc_fd>>

\* No component is read.
NoComponent ==
    /\ component = [kind |-> "none", version |-> "mc", entries |-> <<>>, bytes |-> <<>>]
    /\ parsed = None

\* No table is written or read.
NoTable ==
    /\ table = "none"
    /\ summary = NewSummary
    /\ index_sampling_state = NewSamplingState(1)
    /\ index_file = <<>>
    /\ data_file = <<>>
    /\ first_last_key = [first_key |-> None, last_key |-> None]
    /\ summary_file = [listed |-> FALSE, bytes |-> None]
    /\ data_writer = NewDataWriter(FALSE, 0)

opVars ==
    <<fsVars, wst, wprog, wpc, werr, wcfg, objVars, wopen, wq, delVars, sweepVars, toc_fd,
      stopped>>

fileVars == <<opVars, started>>

\* No partition is being fed.
NoStream ==
    [stage |-> "none", rank |-> -1, static_row |-> FALSE, partitions |-> 0,
     mutation |-> NoMutation, second_run |-> NewWriterM(FALSE)]

Configs ==
    [version : {"la", "mc"}, compressor : BOOLEAN, filter : BOOLEAN,
     leave_unsealed : BOOLEAN, backup : BOOLEAN]

NoCfg ==
    [version |-> "mc", compressor |-> FALSE, filter |-> FALSE,
     leave_unsealed |-> FALSE, backup |-> FALSE]

NoText == [n \in TocFiles |-> <<>>]

(***************************************************************************)
(* The file system calls the code makes                                    *)
(***************************************************************************)

\* open(create | exclusive) and link() fail when the name exists.
Created(d, n) ==
    /\ files' = [files EXCEPT ![d] = @ \cup {n}]
    /\ unsynced' = [unsynced EXCEPT ![d] = @ \cup {n}]

\* remove_file(n): the caller has seen that n exists.
Removed(d, n) ==
    /\ files' = [files EXCEPT ![d] = @ \ {n}]
    /\ unsynced' = [unsynced EXCEPT ![d] = @ \cup {n}]

\* rename_file(from, to) inside d: replaces `to`, and carries the content.
Renamed(d, from, to) ==
    /\ files' = [files EXCEPT ![d] = (@ \ {from}) \cup {to}]
    /\ text' = [text EXCEPT ![d] = [@ EXCEPT ![to] = text[d][from], ![from] = <<>>]]
    /\ unsynced' = [unsynced EXCEPT ![d] = @ \cup {from, to}]

\* The open files a rename_file(from, to) moves: the file that was at `to` has
\* no name left, the file that was at `from` is at `to`.
fd_renamed(fd, from, to) ==
    [w \in DOMAIN fd |->
        IF fd[w] = to THEN "unlinked" ELSE IF fd[w] = from THEN to ELSE fd[w]]

\* The open files a remove_file(n) leaves without a name.
fd_removed(fd, n) == [w \in DOMAIN fd |-> IF fd[w] = n THEN "unlinked" ELSE fd[w]]

\* flush of the directory's file handle (dir_f.flush, sync_directory, fsync_directory).
Flushed(d) == unsynced' = [unsynced EXCEPT ![d] = {}]

(***************************************************************************)
(* sstable::generate_toc and the writers' programs                         *)
(***************************************************************************)

\* A generate_toc that lists the CRC component whatever the compressor.
generate_toc_crc_always(recognized, compressor, filter) ==
    recognized
        \cup {"TOC", "Statistics", "Digest", "Index", "Summary", "Data", "CRC", "Scylla"}
        \cup (IF filter THEN {"Filter"} ELSE {})
        \cup (IF ~compressor THEN {} ELSE {"CompressionInfo"})

generate_toc(recognized, compressor, filter) ==
    recognized
        \cup {"TOC", "Statistics", "Digest", "Index", "Summary", "Data"}
        \cup (IF filter THEN {"Filter"} ELSE {})
        \cup (IF ~compressor THEN {"CRC"} ELSE {"CompressionInfo"})
        \cup {"Scylla"}

\* A write_toc that leaves the directory unflushed.
write_toc_unflushed == <<"toc_create", "toc_exists", "toc_write">>

\* sstable::write_toc, one entry per file operation.
write_toc == <<"toc_create", "toc_exists", "toc_write", "toc_sync">>

\* sstable::create_data: when_all(open Index, open Data).
create_data == <<"open_index", "open_data">>

\* A close_data_writer that writes the digest of a data file still open.
close_data_writer_digest_first == <<"write_digest", "close_data", "write_crc">>

\* sstable_writer_m::close_data_writer.
close_data_writer == <<"close_data", "write_digest", "write_crc">>

\* sstable_writer_k_l::finish_file_writer.
finish_file_writer == <<"close_data", "write_digest", "write_crc">>

\* components_writer::consume_end_of_stream: the index is closed.
components_writer_consume_end_of_stream == <<"close_index">>

\* A seal that renames before it has flushed what the writer created.
seal_sstable_unflushed == <<"seal_rename", "seal_sync2">>

\* sstable::seal_sstable().
seal_sstable == <<"seal_sync1", "seal_rename", "seal_sync2">>

\* A publication that renames its TemporaryTOC before the components are linked.
create_links_rename_first ==
    <<"link_toc", "link_sync1", "link_rename", "link_components", "link_sync2", "link_sync3">>

\* sstable::create_links.
create_links ==
    <<"link_toc", "link_sync1", "link_components", "link_sync2", "link_rename", "link_sync3">>

\* sstable::seal_sstable(bool backup).
seal_sstable_backup(backup) == seal_sstable \o (IF backup THEN create_links ELSE <<>>)

\* The writes both writers make after the data file is closed.
write_components_tail ==
    <<"write_summary", "write_filter", "write_statistics", "write_compression",
      "write_scylla_metadata">>

sstable_writer_m_consume_end_of_stream(c) ==
    <<"close_index">> \o close_data_writer \o write_components_tail
        \o (IF c.leave_unsealed THEN <<>> ELSE seal_sstable_backup(c.backup))

sstable_writer_k_l_consume_end_of_stream(c) ==
    components_writer_consume_end_of_stream \o finish_file_writer \o write_components_tail
        \o (IF c.leave_unsealed THEN <<>> ELSE seal_sstable_backup(c.backup))

\* The constructor, the consumption of the stream, consume_end_of_stream.
Program(c) ==
    write_toc \o create_data \o <<"consume">>
        \o (IF c.version = "mc" THEN sstable_writer_m_consume_end_of_stream(c)
            ELSE sstable_writer_k_l_consume_end_of_stream(c))

Cur(w) == IF wst[w] = "run" THEN wprog[w][wpc[w]] ELSE "none"

At(w, step) == wst[w] = "run" /\ wprog[w][wpc[w]] = step

\* The writer has written TemporaryTOC and has not renamed it.
Unsealed(w) ==
    /\ wst[w] = "run"
    /\ "toc_write" \in Range(wprog[w])
    /\ wpc[w] > IndexOf(wprog[w], "toc_write")
    /\ wpc[w] <= IndexOf(wprog[w], "seal_rename")

\* The operation is over, by return or by exception: ~sstable_writer_m /
\* ~sstable_writer_k_l close what is open, and the sstable object goes with
\* the writer.
Released(w) ==
    /\ wst' = [wst EXCEPT ![w] = "idle"]
    /\ wprog' = [wprog EXCEPT ![w] = <<>>]
    /\ wpc' = [wpc EXCEPT ![w] = 0]
    /\ werr' = [werr EXCEPT ![w] = FALSE]
    /\ wcfg' = [wcfg EXCEPT ![w] = NoCfg]
    /\ recognized_components' = [recognized_components EXCEPT ![w] = {}]
    /\ unrecognized_components' = [unrecognized_components EXCEPT ![w] = <<>>]
    /\ load' = [load EXCEPT ![w] = "none"]
    /\ wopen' = [wopen EXCEPT ![w] = {}]
    /\ wq' = [wq EXCEPT ![w] = <<>>]
    /\ stopped' = IF Unsealed(w) THEN "stopped" ELSE stopped

\* The step has succeeded, leaving err, open and q behind.
Step(w, err, open, q) ==
    IF wpc[w] = Len(wprog[w])
    THEN Released(w)
    ELSE /\ wpc' = [wpc EXCEPT ![w] = @ + 1]
         /\ werr' = [werr EXCEPT ![w] = err]
         /\ wopen' = [wopen EXCEPT ![w] = open]
         /\ wq' = [wq EXCEPT ![w] = q]
         /\ UNCHANGED <<wst, wprog, wcfg, objVars, stopped>>

Advance(w) == Step(w, werr[w], wopen[w], wq[w])

\* An exception leaves the constructor or consume_end_of_stream.
Throw(w) == Released(w)

NoOtherOp == dst = "idle" /\ sst = "idle"

AllWritersIdle == \A w \in Writers : wst[w] = "idle"

(***************************************************************************)
(* The writer: constructor, stream, consume_end_of_stream                  *)
(***************************************************************************)

\* The lines write_toc writes: the names of _recognized_components.
toc_lines(recognized, unrecognized) == InOrder(recognized)

\* sstable_writer_m::sstable_writer_m, sstable_writer_k_l::sstable_writer_k_l:
\* generate_toc, then write_toc up to its exclusive create of TemporaryTOC,
\* which throws when the name exists.  A generation that has reached the
\* backups directory is not given to a writer again.
Constructed(w, c) ==
    IF "TemporaryTOC" \in files["dir"]
    THEN UNCHANGED <<opVars, streamVars, summaryVars, parseVars>>
    ELSE /\ wcfg' = [wcfg EXCEPT ![w] = c]
         /\ wprog' = [wprog EXCEPT ![w] = Program(c)]
         /\ recognized_components' =
              [recognized_components EXCEPT ![w] = generate_toc(@, c.compressor, c.filter)]
         /\ wpc' = [wpc EXCEPT ![w] = 2]
         /\ wst' = [wst EXCEPT ![w] = "run"]
         /\ Created("dir", "TemporaryTOC")
         /\ text' = [text EXCEPT !["dir"]["TemporaryTOC"] = <<>>]
         /\ toc_fd' = [toc_fd EXCEPT ![w] = "TemporaryTOC"]
         /\ stopped' = "no"
         /\ UNCHANGED <<werr, unrecognized_components, load, wopen, wq>>
         /\ UNCHANGED <<delVars, sweepVars, streamVars, summaryVars, parseVars>>

\* The table gives a generation to one writer, and to none while the generation
\* is deleted or swept.
StartWriter(w, c) ==
    /\ wst[w] = "idle"
    /\ NoOtherOp
    /\ files["backups"] = {}
    /\ Constructed(w, c)
    /\ UNCHANGED started

\* write_toc: file_exists(TOC).
TocExists(w) ==
    /\ At(w, "toc_exists")
    /\ IF "TOC" \in files["dir"]
       THEN /\ wst' = [wst EXCEPT ![w] = "toc_abort"]
            /\ UNCHANGED <<wpc, stopped, wprog, werr, wcfg, objVars, wopen, wq>>
       ELSE Advance(w)
    /\ UNCHANGED <<fsVars, delVars, sweepVars, contentVars>>

\* write_toc: f.close(), remove_file(TemporaryTOC), throw.
TocAbort(w) ==
    /\ wst[w] = "toc_abort"
    /\ IF "TemporaryTOC" \in files["dir"]
       THEN /\ Removed("dir", "TemporaryTOC")
            /\ text' = [text EXCEPT !["dir"]["TemporaryTOC"] = <<>>]
            /\ toc_fd' = fd_removed([toc_fd EXCEPT ![w] = "closed"], "TemporaryTOC")
       ELSE UNCHANGED fsVars /\ toc_fd' = [toc_fd EXCEPT ![w] = "closed"]
    /\ Throw(w)
    /\ UNCHANGED <<delVars, sweepVars, dataVars>>

\* write_toc: the component lines are written, flushed, and the file closed.
TocWrite(w) ==
    /\ At(w, "toc_write")
    /\ text' = IF toc_fd[w] \in TocFiles
               THEN [text EXCEPT !["dir"][toc_fd[w]] =
                        toc_lines(recognized_components[w], unrecognized_components[w])]
               ELSE text
    /\ toc_fd' = [toc_fd EXCEPT ![w] = "closed"]
    /\ Advance(w)
    /\ UNCHANGED <<files, unsynced, delVars, sweepVars, dataVars>>

\* write_toc: the parent directory is flushed.
TocSync(w) ==
    /\ At(w, "toc_sync")
    /\ Flushed("dir")
    /\ Advance(w)
    /\ UNCHANGED <<files, text, delVars, sweepVars, contentVars>>

\* create_data: open(Index, create | exclusive).
OpenIndex(w) ==
    /\ At(w, "open_index")
    /\ IF "Index" \in files["dir"]
       THEN Step(w, TRUE, wopen[w], wq[w]) /\ UNCHANGED fsVars
       ELSE Created("dir", "Index") /\ Advance(w) /\ UNCHANGED text
    /\ UNCHANGED <<delVars, sweepVars, contentVars>>

\* create_data: open(Data, create | exclusive); then the two results are examined,
\* and init_file_writers / prepare_file_writer wrap the files.
OpenData(w) ==
    /\ At(w, "open_data")
    /\ IF "Data" \in files["dir"]
       THEN UNCHANGED fsVars
       ELSE Created("dir", "Data") /\ UNCHANGED text
    /\ IF werr[w] \/ "Data" \in files["dir"]
       THEN Throw(w)
       ELSE Step(w, FALSE, {"Data", "Index"}, wq[w])
    /\ UNCHANGED <<delVars, sweepVars, contentVars>>

\* The partitions of the stream are written to Data and Index.
Consume(w) ==
    /\ At(w, "consume")
    /\ Advance(w)
    /\ UNCHANGED <<fsVars, delVars, sweepVars, contentVars>>

\* _index_writer->close() / _index.close().
CloseIndex(w) ==
    /\ At(w, "close_index")
    /\ Step(w, werr[w], wopen[w] \ {"Index"}, wq[w])
    /\ UNCHANGED <<fsVars, delVars, sweepVars, contentVars>>

\* writer->close() of the data writer.
CloseData(w) ==
    /\ At(w, "close_data")
    /\ Step(w, werr[w], wopen[w] \ {"Data"}, wq[w])
    /\ UNCHANGED <<fsVars, delVars, sweepVars, contentVars>>

\* write_simple / write_digest / write_crc: open(create | exclusive), write, close;
\* `wanted` is the guard the caller puts before the write.
write_simple(w, n, wanted) ==
    /\ IF ~wanted
       THEN Advance(w) /\ UNCHANGED fsVars
       ELSE IF n \in files["dir"]
            THEN Throw(w) /\ UNCHANGED fsVars
            ELSE Created("dir", n) /\ Advance(w) /\ UNCHANGED text
    /\ UNCHANGED <<delVars, sweepVars, contentVars>>

has_component(w, n) == n \in recognized_components[w]

\* _compression_enabled = !_sst.has_component(component_type::CRC).
compression_enabled(w) == ~has_component(w, "CRC")

WriteDigest(w) == At(w, "write_digest") /\ write_simple(w, "Digest", TRUE)

WriteCrc(w) == At(w, "write_crc") /\ write_simple(w, "CRC", ~compression_enabled(w))

WriteSummary(w) == At(w, "write_summary") /\ write_simple(w, "Summary", TRUE)

WriteFilter(w) == At(w, "write_filter") /\ write_simple(w, "Filter", has_component(w, "Filter"))

WriteStatistics(w) == At(w, "write_statistics") /\ write_simple(w, "Statistics", TRUE)

WriteCompression(w) ==
    At(w, "write_compression") /\ write_simple(w, "CompressionInfo", has_component(w, "CompressionInfo"))

\* write_scylla_metadata throws when the sharding metadata comes out empty.
WriteScyllaMetadata(w) ==
    /\ At(w, "write_scylla_metadata")
    /\ \E empty \in BOOLEAN :
         IF empty
         THEN Throw(w) /\ UNCHANGED <<fsVars, delVars, sweepVars, contentVars>>
         ELSE write_simple(w, "Scylla", TRUE)

\* seal_sstable: dir_f.flush().
SealSync1(w) ==
    /\ At(w, "seal_sync1")
    /\ Flushed("dir")
    /\ Advance(w)
    /\ UNCHANGED <<files, text, delVars, sweepVars, contentVars>>

\* seal_sstable: rename_file(TemporaryTOC, TOC).
SealRename(w) ==
    /\ At(w, "seal_rename")
    /\ IF "TemporaryTOC" \in files["dir"]
       THEN /\ Renamed("dir", "TemporaryTOC", "TOC")
            /\ toc_fd' = fd_renamed(toc_fd, "TemporaryTOC", "TOC")
            /\ Advance(w)
       ELSE Throw(w) /\ UNCHANGED <<fsVars, toc_fd>>
    /\ UNCHANGED <<delVars, sweepVars, dataVars>>

\* seal_sstable: dir_f.flush(), dir_f.close().
SealSync2(w) ==
    /\ At(w, "seal_sync2")
    /\ Flushed("dir")
    /\ Advance(w)
    /\ UNCHANGED <<files, text, delVars, sweepVars, contentVars>>

(***************************************************************************)
(* sstable::all_components and sstable::create_links                       *)
(***************************************************************************)

all_components(recognized, unrecognized) ==
    [i \in 1..Len(InOrder(recognized)) |->
        [type |-> InOrder(recognized)[i], name |-> InOrder(recognized)[i]]]
    \o [i \in 1..Len(unrecognized) |-> [type |-> "Unknown", name |-> unrecognized[i]]]

\* A publication that links the recognized components only.
link_names_recognized(recognized, unrecognized) ==
    SelectSeq(InOrder(recognized), LAMBDA n : n # "TOC")

\* The names create_links links between its two directory flushes.
link_names(recognized, unrecognized) ==
    LET all == SelectSeq(all_components(recognized, unrecognized), LAMBDA p : p.type # "TOC")
    IN  [i \in 1..Len(all) |-> all[i].name]

\* link(dir/n, backups/n): the new name shares the file, a TOC's lines included.
Linked(n, as) ==
    /\ Created("backups", as)
    /\ text' = IF as \in TocFiles
               THEN [text EXCEPT !["backups"][as] = IF n \in TocFiles THEN text["dir"][n] ELSE <<>>]
               ELSE text

\* create_links: link_file(TOC, dst TemporaryTOC).
LinkToc(w) ==
    /\ At(w, "link_toc")
    /\ IF "TOC" \in files["dir"] /\ "TemporaryTOC" \notin files["backups"]
       THEN Linked("TOC", "TemporaryTOC") /\ Advance(w)
       ELSE Throw(w) /\ UNCHANGED fsVars
    /\ UNCHANGED <<delVars, sweepVars, contentVars>>

\* create_links: sync_directory(dst); then the links of all components are issued.
LinkSync1(w) ==
    /\ At(w, "link_sync1")
    /\ Flushed("backups")
    /\ Step(w, werr[w], wopen[w],
            link_names(recognized_components[w], unrecognized_components[w]))
    /\ UNCHANGED <<files, text, delVars, sweepVars, contentVars>>

\* create_links: one link_file of the parallel_for_each completes; when all have,
\* the first failure, if any, is thrown.
LinkComponents(w) ==
    /\ At(w, "link_components")
    /\ IF wq[w] = <<>>
       THEN /\ IF werr[w] THEN Throw(w) ELSE Advance(w)
            /\ UNCHANGED fsVars
       ELSE /\ wq' = [wq EXCEPT ![w] = Tail(@)]
            /\ IF Head(wq[w]) \in files["dir"] /\ Head(wq[w]) \notin files["backups"]
               THEN Linked(Head(wq[w]), Head(wq[w])) /\ UNCHANGED werr
               ELSE werr' = [werr EXCEPT ![w] = TRUE] /\ UNCHANGED fsVars
            /\ UNCHANGED <<wst, wpc, stopped, wprog, wcfg, objVars, wopen>>
    /\ UNCHANGED <<delVars, sweepVars, contentVars>>

\* create_links: sync_directory(dst).
LinkSync2(w) ==
    /\ At(w, "link_sync2")
    /\ Flushed("backups")
    /\ Advance(w)
    /\ UNCHANGED <<files, text, delVars, sweepVars, contentVars>>

\* create_links: rename_file(dst TemporaryTOC, dst TOC).
LinkRename(w) ==
    /\ At(w, "link_rename")
    /\ IF "TemporaryTOC" \in files["backups"]
       THEN Renamed("backups", "TemporaryTOC", "TOC") /\ Advance(w)
       ELSE Throw(w) /\ UNCHANGED fsVars
    /\ UNCHANGED <<delVars, sweepVars, contentVars>>

\* create_links: sync_directory(dst).
LinkSync3(w) ==
    /\ At(w, "link_sync3")
    /\ Flushed("backups")
    /\ Advance(w)
    /\ UNCHANGED <<files, text, delVars, sweepVars, contentVars>>

\* A file operation of the writer fails (sstable_write_io_check rethrows).
IoError(w) ==
    /\ wst[w] = "run"
    /\ Throw(w)
    /\ toc_fd' = [toc_fd EXCEPT ![w] = "closed"]
    /\ UNCHANGED <<fsVars, delVars, sweepVars, dataVars>>

(***************************************************************************)
(* remove_by_toc_name                                                      *)
(***************************************************************************)

\* A delete that unlinks TemporaryTOC before the files it lists.
remove_by_toc_name_toc_first ==
    <<"exists_toc", "rename_toc", "fsync_renamed", "exists_temporary_toc",
      "read_toc_lines", "remove_temporary_toc", "remove_components", "fsync_removed">>

remove_by_toc_name ==
    <<"exists_toc", "rename_toc", "fsync_renamed", "exists_temporary_toc",
      "read_toc_lines", "remove_components", "fsync_removed", "remove_temporary_toc">>

DAt(step) == dst = "run" /\ remove_by_toc_name[dpc] = step

DGoto(step) == dpc' = IndexOf(remove_by_toc_name, step) /\ dst' = dst

DAdvance ==
    /\ dpc' = dpc + 1
    /\ dst' = IF dpc = Len(remove_by_toc_name) THEN "done" ELSE "run"

\* delete_sstables / delete_atomically call remove_by_toc_name for the generation.
Deleted ==
    /\ dst' = "run" /\ dpc' = 1 /\ dq' = <<>> /\ drenamed' = FALSE
    /\ UNCHANGED dcrashed
    /\ UNCHANGED <<fsVars, wst, wprog, wpc, werr, wcfg, objVars, wopen, wq, sweepVars, stopped>>
    /\ UNCHANGED <<streamVars, summaryVars, parseVars, toc_fd>>

\* The table deletes a generation no writer writes.
StartDelete ==
    /\ dst = "idle" /\ sst = "idle" /\ AllWritersIdle
    /\ Deleted
    /\ UNCHANGED started

DelOther ==
    UNCHANGED <<wst, wprog, wpc, werr, wcfg, objVars, wopen, wq, sweepVars, dataVars, dcrashed>>

\* file_exists(sstable_toc_name).
DelExistsToc ==
    /\ DAt("exists_toc")
    /\ IF "TOC" \in files["dir"] THEN DAdvance ELSE DGoto("exists_temporary_toc")
    /\ UNCHANGED <<fsVars, dq, drenamed, toc_fd, stopped>> /\ DelOther

\* rename_file(sstable_toc_name, new_toc_name).
DelRenameToc ==
    /\ DAt("rename_toc")
    /\ IF "TOC" \in files["dir"]
       THEN /\ Renamed("dir", "TOC", "TemporaryTOC")
            /\ toc_fd' = fd_renamed(toc_fd, "TOC", "TemporaryTOC")
            /\ DAdvance /\ drenamed' = TRUE
       ELSE dst' = "failed" /\ UNCHANGED <<fsVars, dpc, drenamed, toc_fd>>
    /\ UNCHANGED <<dq, stopped>> /\ DelOther

\* fsync_directory(dir) after the rename.
DelFsyncRenamed ==
    /\ DAt("fsync_renamed")
    /\ Flushed("dir")
    /\ DGoto("read_toc_lines")
    /\ UNCHANGED <<files, text, dq, drenamed, toc_fd, stopped>> /\ DelOther

\* file_exists(new_toc_name); neither name exists: warn and return.
DelExistsTemporaryToc ==
    /\ DAt("exists_temporary_toc")
    /\ IF "TemporaryTOC" \in files["dir"]
       THEN DAdvance
       ELSE dst' = "done" /\ dpc' = dpc
    /\ UNCHANGED <<fsVars, dq, drenamed, toc_fd, stopped>> /\ DelOther

\* The lines remove_file is called for: not the empty ones, not TOC's own.
delete_lines(lines) == SelectSeq(lines, LAMBDA c : c # "" /\ c # "TOC")

\* TemporaryTOC is opened, read whole and split into lines.
DelReadTocLines ==
    /\ DAt("read_toc_lines")
    /\ IF "TemporaryTOC" \in files["dir"]
       THEN dq' = delete_lines(text["dir"]["TemporaryTOC"]) /\ DAdvance
       ELSE dst' = "failed" /\ UNCHANGED <<dpc, dq>>
    /\ UNCHANGED <<fsVars, drenamed, toc_fd, stopped>> /\ DelOther

\* One remove_file of the parallel_for_each completes; ENOENT is forgiven.
DelRemoveComponents ==
    /\ DAt("remove_components")
    /\ IF dq = <<>>
       THEN DAdvance /\ UNCHANGED <<fsVars, dq>>
       ELSE /\ dq' = Tail(dq)
            /\ UNCHANGED <<dst, dpc>>
            /\ IF Head(dq) \in files["dir"]
               THEN Removed("dir", Head(dq)) /\ UNCHANGED text
               ELSE UNCHANGED fsVars
    /\ UNCHANGED <<drenamed, toc_fd, stopped>> /\ DelOther

\* fsync_directory(dir) after the removals.
DelFsyncRemoved ==
    /\ DAt("fsync_removed")
    /\ Flushed("dir")
    /\ DAdvance
    /\ UNCHANGED <<files, text, dq, drenamed, toc_fd, stopped>> /\ DelOther

\* remove_file(new_toc_name).
DelRemoveTemporaryToc ==
    /\ DAt("remove_temporary_toc")
    /\ IF "TemporaryTOC" \in files["dir"]
       THEN /\ Removed("dir", "TemporaryTOC")
            /\ text' = [text EXCEPT !["dir"]["TemporaryTOC"] = <<>>]
            /\ toc_fd' = fd_removed(toc_fd, "TemporaryTOC")
            /\ stopped' = "no"
            /\ DAdvance
       ELSE dst' = "failed" /\ UNCHANGED <<fsVars, dpc, toc_fd, stopped>>
    /\ UNCHANGED <<dq, drenamed>> /\ DelOther

\* A file operation of the delete fails with an error other than ENOENT.
DelIoError ==
    /\ dst = "run"
    /\ dst' = "failed"
    /\ UNCHANGED <<fsVars, dpc, dq, drenamed, toc_fd, stopped>> /\ DelOther

\* The future remove_by_toc_name returned resolves.
DelReturn ==
    /\ dst \in {"failed", "done"}
    /\ dst' = "idle" /\ dpc' = 0 /\ dq' = <<>> /\ drenamed' = FALSE /\ dcrashed' = FALSE
    /\ UNCHANGED <<fsVars, stopped>>
    /\ UNCHANGED <<wst, wprog, wpc, werr, wcfg, objVars, wopen, wq, sweepVars, contentVars>>

(***************************************************************************)
(* sstable::remove_sstable_with_temp_toc                                   *)
(***************************************************************************)

remove_sstable_with_temp_toc ==
    <<"assert_no_toc", "assert_temporary_toc", "remove_entries", "fsync_entries",
      "remove_temporary_toc", "fsync_final">>

\* A loop that visits the two stream files only.
sweep_entries_streams_only == <<"Data", "Index">>

\* The entries of the component map the loop does not skip.
sweep_entries == SelectSeq(ComponentOrder, LAMBDA n : n # "TemporaryTOC")

SAt(step) == sst = "run" /\ remove_sstable_with_temp_toc[spc] = step

SAdvance ==
    /\ spc' = spc + 1
    /\ sst' = IF spc = Len(remove_sstable_with_temp_toc) THEN "done" ELSE "run"

SweepOther == UNCHANGED <<wst, wprog, wpc, werr, wcfg, objVars, wopen, wq, delVars, contentVars>>

\* At start-up a generation found with a TemporaryTOC is handed to
\* remove_sstable_with_temp_toc.
StartSweep ==
    /\ dst = "idle" /\ sst = "idle" /\ AllWritersIdle
    /\ "TemporaryTOC" \in files["dir"]
    /\ sst' = "run" /\ spc' = 1 /\ sq' = <<>>
    /\ UNCHANGED <<fsVars, stopped>> /\ SweepOther

\* file_exists(TOC); assert(toc == false).
SweepAssertNoToc ==
    /\ SAt("assert_no_toc")
    /\ IF "TOC" \in files["dir"] THEN sst' = "aborted" /\ spc' = spc ELSE SAdvance
    /\ UNCHANGED <<fsVars, sq, stopped>> /\ SweepOther

\* file_exists(TemporaryTOC); assert(tmptoc == true).
SweepAssertTemporaryToc ==
    /\ SAt("assert_temporary_toc")
    /\ IF "TemporaryTOC" \notin files["dir"]
       THEN sst' = "aborted" /\ spc' = spc /\ sq' = sq
       ELSE SAdvance /\ sq' = sweep_entries
    /\ UNCHANGED <<fsVars, stopped>> /\ SweepOther

\* One turn of the loop over the component map: file_exists, then remove_file.
SweepRemoveEntries ==
    /\ SAt("remove_entries")
    /\ IF sq = <<>>
       THEN SAdvance /\ UNCHANGED <<fsVars, sq>>
       ELSE /\ sq' = Tail(sq)
            /\ UNCHANGED <<sst, spc>>
            /\ IF Head(sq) \in files["dir"]
               THEN /\ Removed("dir", Head(sq))
                    /\ text' = IF Head(sq) \in TocFiles
                               THEN [text EXCEPT !["dir"][Head(sq)] = <<>>] ELSE text
               ELSE UNCHANGED fsVars
    /\ UNCHANGED stopped /\ SweepOther

\* fsync_directory(dir) after the loop.
SweepFsyncEntries ==
    /\ SAt("fsync_entries")
    /\ Flushed("dir")
    /\ SAdvance
    /\ UNCHANGED <<files, text, sq, stopped>> /\ SweepOther

\* remove_file(TemporaryTOC).
SweepRemoveTemporaryToc ==
    /\ SAt("remove_temporary_toc")
    /\ IF "TemporaryTOC" \in files["dir"]
       THEN /\ Removed("dir", "TemporaryTOC")
            /\ text' = [text EXCEPT !["dir"]["TemporaryTOC"] = <<>>]
            /\ stopped' = IF stopped = "stopped" THEN "removed" ELSE stopped
            /\ SAdvance
       ELSE sst' = "aborted" /\ UNCHANGED <<fsVars, spc, stopped>>
    /\ UNCHANGED sq /\ SweepOther

\* fsync_directory(dir): "to guarantee that deletion completed".
SweepFsyncFinal ==
    /\ SAt("fsync_final")
    /\ Flushed("dir")
    /\ SAdvance
    /\ UNCHANGED <<files, text, sq, stopped>> /\ SweepOther

\* A file operation of the removal fails.
SweepIoError ==
    /\ sst = "run"
    /\ sst' = "aborted"
    /\ UNCHANGED <<fsVars, spc, sq, stopped>> /\ SweepOther

\* The removal is over.
SweepReturn ==
    /\ sst \in {"aborted", "done"}
    /\ sst' = "idle" /\ spc' = 0 /\ sq' = <<>>
    /\ UNCHANGED <<fsVars, stopped>> /\ SweepOther

(***************************************************************************)
(* The process stops: every operation in progress is lost, the files stay. *)
(***************************************************************************)

Crash ==
    /\ \/ \E w \in Writers : wst[w] # "idle"
       \/ dst # "idle"
       \/ sst # "idle"
    /\ wst' = [w \in Writers |-> "idle"]
    /\ wprog' = [w \in Writers |-> <<>>]
    /\ wpc' = [w \in Writers |-> 0]
    /\ werr' = [w \in Writers |-> FALSE]
    /\ wcfg' = [w \in Writers |-> NoCfg]
    /\ recognized_components' = [w \in Writers |-> {}]
    /\ unrecognized_components' = [w \in Writers |-> <<>>]
    /\ load' = [w \in Writers |-> "none"]
    /\ wopen' = [w \in Writers |-> {}]
    /\ wq' = [w \in Writers |-> <<>>]
    /\ dst' = "idle" /\ dpc' = 0 /\ dq' = <<>> /\ drenamed' = FALSE
    /\ dcrashed' = IF dst = "run" THEN TRUE ELSE IF dst = "idle" THEN dcrashed ELSE FALSE
    /\ sst' = "idle" /\ spc' = 0 /\ sq' = <<>>
    /\ stopped' = IF \E w \in Writers : Unsealed(w) THEN "stopped" ELSE stopped
    /\ toc_fd' = [w \in Writers |-> "closed"]
    /\ UNCHANGED <<fsVars, dataVars>>

(***************************************************************************)
(* The directory of a table that writes, seals, backs up and deletes       *)
(***************************************************************************)

Init ==
    /\ files = [d \in Dirs |-> {}]
    /\ text = [d \in Dirs |-> NoText]
    /\ unsynced = [d \in Dirs |-> {}]
    /\ wst = [w \in Writers |-> "idle"]
    /\ wprog = [w \in Writers |-> <<>>]
    /\ wpc = [w \in Writers |-> 0]
    /\ werr = [w \in Writers |-> FALSE]
    /\ wcfg = [w \in Writers |-> NoCfg]
    /\ recognized_components = [w \in Writers |-> {}]
    /\ unrecognized_components = [w \in Writers |-> <<>>]
    /\ load = [w \in Writers |-> "none"]
    /\ wopen = [w \in Writers |-> {}]
    /\ wq = [w \in Writers |-> <<>>]
    /\ dst = "idle" /\ dpc = 0 /\ dq = <<>> /\ drenamed = FALSE /\ dcrashed = FALSE
    /\ toc_fd = [w \in Writers |-> "closed"]
    /\ started = 0
    /\ sst = "idle" /\ spc = 0 /\ sq = <<>>
    /\ stopped = "no"
    /\ writer_m = NewWriterM(FALSE)
    /\ stream = NoStream
    /\ components_writer = NewComponentsWriter
    /\ NoTable
    /\ NoComponent

WriterStep(w) ==
    \/ TocExists(w) \/ TocAbort(w) \/ TocWrite(w) \/ TocSync(w)
    \/ OpenIndex(w) \/ OpenData(w) \/ Consume(w)
    \/ CloseIndex(w) \/ CloseData(w)
    \/ WriteDigest(w) \/ WriteCrc(w) \/ WriteSummary(w) \/ WriteFilter(w)
    \/ WriteStatistics(w) \/ WriteCompression(w) \/ WriteScyllaMetadata(w)
    \/ SealSync1(w) \/ SealRename(w) \/ SealSync2(w)

LinkStep(w) ==
    \/ LinkToc(w) \/ LinkSync1(w) \/ LinkComponents(w)
    \/ LinkSync2(w) \/ LinkRename(w) \/ LinkSync3(w)

DeleteStep ==
    \/ DelExistsToc \/ DelRenameToc \/ DelFsyncRenamed \/ DelExistsTemporaryToc
    \/ DelReadTocLines \/ DelRemoveComponents \/ DelFsyncRemoved
    \/ DelRemoveTemporaryToc \/ DelIoError \/ DelReturn

SweepStep ==
    \/ SweepAssertNoToc \/ SweepAssertTemporaryToc \/ SweepRemoveEntries
    \/ SweepFsyncEntries \/ SweepRemoveTemporaryToc \/ SweepFsyncFinal
    \/ SweepIoError \/ SweepReturn

Next ==
    \/ \E w \in Writers : \E c \in Configs : StartWriter(w, c)
    \/ \E w \in Writers : WriterStep(w)
    \/ \E w \in Writers : LinkStep(w)
    \/ \E w \in Writers : IoError(w)
    \/ StartDelete
    \/ DeleteStep
    \/ StartSweep
    \/ SweepStep
    \/ Crash

Spec == Init /\ [][Next]_vars

(***************************************************************************)
(* A generation that is given to two writers, and deleted while they write *)
(***************************************************************************)

\* The operations a behaviour starts in all: writers and deletes.
MaxStarted == 3

RaceConfigs ==
    {c \in Configs :
        c.version = "mc" /\ ~c.compressor /\ ~c.filter /\ ~c.backup /\ ~c.leave_unsealed}

\* The constructor is called whatever else goes on in the directory.
StartWriterRacing(w, c) ==
    /\ wst[w] = "idle"
    /\ started < MaxStarted
    /\ started' = started + 1
    /\ Constructed(w, c)

\* remove_by_toc_name is called whatever the writers do.
StartDeleteRacing ==
    /\ dst = "idle"
    /\ started < MaxStarted
    /\ started' = started + 1
    /\ Deleted

\* The directory is empty, or holds the generation sealed.
InitRace ==
    /\ \E sealed \in BOOLEAN : \E c \in RaceConfigs :
         /\ files = [d \in Dirs |->
                        IF sealed /\ d = "dir"
                        THEN generate_toc({}, c.compressor, c.filter) ELSE {}]
         /\ text = [d \in Dirs |->
                       IF sealed /\ d = "dir"
                       THEN [NoText EXCEPT !["TOC"] =
                                toc_lines(generate_toc({}, c.compressor, c.filter), <<>>)]
                       ELSE NoText]
    /\ unsynced = [d \in Dirs |-> {}]
    /\ wst = [w \in Writers |-> "idle"]
    /\ wprog = [w \in Writers |-> <<>>]
    /\ wpc = [w \in Writers |-> 0]
    /\ werr = [w \in Writers |-> FALSE]
    /\ wcfg = [w \in Writers |-> NoCfg]
    /\ recognized_components = [w \in Writers |-> {}]
    /\ unrecognized_components = [w \in Writers |-> <<>>]
    /\ load = [w \in Writers |-> "none"]
    /\ wopen = [w \in Writers |-> {}]
    /\ wq = [w \in Writers |-> <<>>]
    /\ dst = "idle" /\ dpc = 0 /\ dq = <<>> /\ drenamed = FALSE /\ dcrashed = FALSE
    /\ toc_fd = [w \in Writers |-> "closed"]
    /\ started = 0
    /\ sst = "idle" /\ spc = 0 /\ sq = <<>>
    /\ stopped = "no"
    /\ writer_m = NewWriterM(FALSE)
    /\ stream = NoStream
    /\ components_writer = NewComponentsWriter
    /\ NoTable
    /\ NoComponent

NextRace ==
    \/ \E w \in Writers : \E c \in RaceConfigs : StartWriterRacing(w, c)
    \/ \E w \in Writers : WriterStep(w)
    \/ StartDeleteRacing
    \/ DeleteStep

SpecRace == InitRace /\ [][NextRace]_vars

(***************************************************************************)
(* sstable::read_toc, and a directory that holds a sealed generation some  *)
(* other program has written                                               *)
(***************************************************************************)

\* The longest TOC the directory is found with.
MaxTocLines == 3

\* BigLine is BigLineSlack bytes, newline included, short of the buffer.
BigLineSlack == 9

TocLineChoices == {"", "TOC", "Data", SomethingNew, BigLine}

LineLen(l) == IF l = BigLine THEN TocBufSize - BigLineSlack - 1 ELSE Len(l)

RECURSIVE toc_size(_)
\* The bytes of a TOC file: every line and its newline.
toc_size(lines) ==
    IF lines = <<>> THEN 0 ELSE LineLen(Head(lines)) + 1 + toc_size(Tail(lines))

\* reverse_map finds the name in the version's component map.
reverse_map_finds(c) == c \in ComponentMap

\* What the loop of read_toc inserts into _recognized_components.
read_recognized(lines) == {c \in Range(lines) : c # "" /\ reverse_map_finds(c)}

\* A loop that drops the names it does not find.
read_unrecognized_dropped(lines) == SelectSeq(lines, LAMBDA c : FALSE)

\* What the loop of read_toc pushes onto _unrecognized_components.
read_unrecognized(lines) == SelectSeq(lines, LAMBDA c : c # "" /\ ~reverse_map_finds(c))

\* sstable::read_toc on the sstable object of w.
Load(w) ==
    /\ wst[w] = "idle"
    /\ NoOtherOp
    /\ load[w] # "malformed"
    /\ IF recognized_components[w] # {}
       THEN UNCHANGED objVars
       ELSE IF "TOC" \notin files["dir"]
       THEN /\ load' = [load EXCEPT ![w] = "malformed"]
            /\ UNCHANGED <<recognized_components, unrecognized_components>>
       ELSE IF toc_size(text["dir"]["TOC"]) >= TocBufSize
       THEN /\ load' = [load EXCEPT ![w] = "malformed"]
            /\ UNCHANGED <<recognized_components, unrecognized_components>>
       ELSE /\ recognized_components' =
                 [recognized_components EXCEPT ![w] = read_recognized(text["dir"]["TOC"])]
            /\ unrecognized_components' =
                 [unrecognized_components EXCEPT ![w] = @ \o read_unrecognized(text["dir"]["TOC"])]
            /\ load' = [load EXCEPT ![w] =
                 IF read_recognized(text["dir"]["TOC"]) = {} THEN "malformed" ELSE "ok"]
    /\ UNCHANGED <<fsVars, wst, wprog, wpc, werr, wcfg, wopen, wq, delVars, sweepVars, contentVars, stopped>>

\* The sstable object that failed to load is dropped.
Drop(w) ==
    /\ wst[w] = "idle"
    /\ load[w] # "none"
    /\ Released(w)
    /\ UNCHANGED <<fsVars, delVars, sweepVars, contentVars>>

\* sstable::create_links(dir) is called on a loaded sstable.
StartCreateLinks(w) ==
    /\ wst[w] = "idle"
    /\ NoOtherOp
    /\ load[w] = "ok"
    /\ wst' = [wst EXCEPT ![w] = "run"]
    /\ wprog' = [wprog EXCEPT ![w] = create_links]
    /\ wpc' = [wpc EXCEPT ![w] = 1]
    /\ UNCHANGED <<fsVars, werr, wcfg, objVars, wopen, wq, delVars, sweepVars, contentVars, stopped>>

\* The files the TOC found in the directory stands for: a name as long as
\* BigLine cannot be a directory entry.
listed_files(lines) == {c \in Range(lines) : c # "" /\ c # BigLine} \cup {"TOC"}

TocTexts == UNION {[1..n -> TocLineChoices] : n \in 0..MaxTocLines}

InitToc ==
    /\ \E lines \in TocTexts :
         /\ files = [d \in Dirs |-> IF d = "dir" THEN listed_files(lines) ELSE {}]
         /\ text = [d \in Dirs |-> IF d = "dir" THEN [NoText EXCEPT !["TOC"] = lines] ELSE NoText]
    /\ unsynced = [d \in Dirs |-> {}]
    /\ wst = [w \in Writers |-> "idle"]
    /\ wprog = [w \in Writers |-> <<>>]
    /\ wpc = [w \in Writers |-> 0]
    /\ werr = [w \in Writers |-> FALSE]
    /\ wcfg = [w \in Writers |-> NoCfg]
    /\ recognized_components = [w \in Writers |-> {}]
    /\ unrecognized_components = [w \in Writers |-> <<>>]
    /\ load = [w \in Writers |-> "none"]
    /\ wopen = [w \in Writers |-> {}]
    /\ wq = [w \in Writers |-> <<>>]
    /\ dst = "idle" /\ dpc = 0 /\ dq = <<>> /\ drenamed = FALSE /\ dcrashed = FALSE
    /\ toc_fd = [w \in Writers |-> "closed"]
    /\ started = 0
    /\ sst = "idle" /\ spc = 0 /\ sq = <<>>
    /\ stopped = "no"
    /\ writer_m = NewWriterM(FALSE)
    /\ stream = NoStream
    /\ components_writer = NewComponentsWriter
    /\ NoTable
    /\ NoComponent

\* One sstable object works on the directory found, and a writer given that
\* object is configured in one of TocConfigs.
Loaders == {"w1"}

TocConfigs == {c \in Configs : c.version = "mc" /\ ~c.filter /\ ~c.backup /\ ~c.leave_unsealed}

NextToc ==
    \/ \E w \in Loaders : Load(w)
    \/ \E w \in Loaders : Drop(w)
    \/ \E w \in Loaders : StartCreateLinks(w)
    \/ \E w \in Loaders : LinkStep(w)
    \/ \E w \in Loaders : \E c \in TocConfigs : StartWriter(w, c)
    \/ \E w \in Loaders : WriterStep(w)
    \/ \E w \in Loaders : IoError(w)
    \/ StartDelete
    \/ DeleteStep

SpecToc == InitToc /\ [][NextToc]_vars

(***************************************************************************)
(* A ModernM writer given a stream of partitions                           *)
(***************************************************************************)

\* The caller's stream: consume_new_partition, then the partition tombstone if
\* there is one, then the static row if there is one, then clustering rows and
\* range tombstones in the order of their positions, then
\* consume_end_of_partition.  mutation is the mutation of the partition at
\* hand, as far as the stream has given it.  second_run is a second writer with
\* the same parameters: it is new when the partition starts, at the place of
\* the Data file where the partition starts, and is given the same calls.
Fed(stage, rank, mutation, second_run) ==
    stream' = [stream EXCEPT !.stage = stage, !.rank = rank, !.mutation = mutation,
                             !.second_run = second_run]

SecondWriter == [stream.second_run EXCEPT !.drained = <<>>]

Handled(w) == writer_m' = w /\ UNCHANGED components_writer

Writer == [writer_m EXCEPT !.drained = <<>>]

ConsumeNewPartition ==
    /\ stream.stage = "none"
    /\ stream.partitions < MaxPartitions
    /\ Handled(consume_new_partition(Writer))
    /\ stream' = [stage |-> "partition", rank |-> -1, static_row |-> FALSE,
                  partitions |-> stream.partitions + 1, mutation |-> NoMutation,
                  second_run |->
                      consume_new_partition(
                          [NewWriterM(writer_m.static_columns) EXCEPT
                              !.data_offset = writer_m.data_offset])]
    /\ UNCHANGED <<fileVars, summaryVars, parseVars>>

ConsumeTombstone(t) ==
    /\ stream.stage = "partition"
    /\ Handled(consume_tombstone(Writer, t))
    /\ Fed("tombstone", stream.rank, [stream.mutation EXCEPT !.tomb = t],
           consume_tombstone(SecondWriter, t))
    /\ UNCHANGED <<fileVars, summaryVars, parseVars>>

ConsumeStaticRow(sr) ==
    /\ stream.stage \in {"partition", "tombstone"}
    /\ writer_m.static_columns
    /\ Handled(consume_static_row(Writer, sr))
    /\ stream' = [stream EXCEPT !.stage = "static_row", !.static_row = TRUE,
                                !.mutation.static_row = sr,
                                !.second_run = consume_static_row(SecondWriter, sr)]
    /\ UNCHANGED <<fileVars, summaryVars, parseVars>>

ConsumeClusteringRow(key, size) ==
    /\ stream.stage # "none"
    /\ row_rank(key) > stream.rank
    /\ Handled(consume_clustering_row(Writer, key, size))
    /\ Fed("clustered", row_rank(key), [stream.mutation EXCEPT !.rows[key] = size],
           consume_clustering_row(SecondWriter, key, size))
    /\ UNCHANGED <<fileVars, summaryVars, parseVars>>

ConsumeRangeTombstone(rt) ==
    /\ stream.stage # "none"
    /\ bound_rank(rt_position(rt)) >= stream.rank
    /\ Handled(consume_range_tombstone(Writer, rt))
    /\ Fed("clustered", bound_rank(rt_position(rt)),
           [stream.mutation EXCEPT !.range_tombstones = rts_apply(@, rt)],
           consume_range_tombstone(SecondWriter, rt))
    /\ UNCHANGED <<fileVars, summaryVars, parseVars>>

ConsumeEndOfPartition ==
    /\ stream.stage # "none"
    /\ Handled(consume_end_of_partition(Writer))
    /\ Fed("none", stream.rank, stream.mutation, consume_end_of_partition(SecondWriter))
    /\ UNCHANGED <<fileVars, summaryVars, parseVars>>

InitM ==
    /\ files = [d \in Dirs |-> {}]
    /\ text = [d \in Dirs |-> NoText]
    /\ unsynced = [d \in Dirs |-> {}]
    /\ wst = [w \in Writers |-> "idle"]
    /\ wprog = [w \in Writers |-> <<>>]
    /\ wpc = [w \in Writers |-> 0]
    /\ werr = [w \in Writers |-> FALSE]
    /\ wcfg = [w \in Writers |-> NoCfg]
    /\ recognized_components = [w \in Writers |-> {}]
    /\ unrecognized_components = [w \in Writers |-> <<>>]
    /\ load = [w \in Writers |-> "none"]
    /\ wopen = [w \in Writers |-> {}]
    /\ wq = [w \in Writers |-> <<>>]
    /\ dst = "idle" /\ dpc = 0 /\ dq = <<>> /\ drenamed = FALSE /\ dcrashed = FALSE
    /\ toc_fd = [w \in Writers |-> "closed"]
    /\ started = 0
    /\ sst = "idle" /\ spc = 0 /\ sq = <<>>
    /\ stopped = "no"
    /\ \E has_static_columns \in BOOLEAN : writer_m = NewWriterM(has_static_columns)
    /\ stream = NoStream
    /\ components_writer = NewComponentsWriter
    /\ NoTable
    /\ NoComponent

NextM ==
    \/ ConsumeNewPartition
    \/ \E t \in Tombs : ConsumeTombstone(t)
    \/ \E sr \in StaticRows : ConsumeStaticRow(sr)
    \/ \E key \in Keys : \E size \in RowSizes : ConsumeClusteringRow(key, size)
    \/ \E rt \in RangeTombstones : ConsumeRangeTombstone(rt)
    \/ ConsumeEndOfPartition

SpecM == InitM /\ [][NextM]_vars

(***************************************************************************)
(* A table's partitions and its Summary: written, stored, read again       *)
(***************************************************************************)

\* _last_key is set with _first_key and kept.
end_of_partition_keys_first_only(keys, key) ==
    IF keys.first_key = None
    THEN [first_key |-> Some(key), last_key |-> Some(key)]
    ELSE keys

\* The keys after consume_end_of_partition of a partition.
end_of_partition_keys(keys, key) ==
    [first_key |-> IF keys.first_key = None THEN Some(key) ELSE keys.first_key,
     last_key |-> Some(key)]

\* consume_new_partition(dk) up to consume_end_of_partition of a partition
\* that takes `size` bytes in the Data file.  The caller gives the partitions
\* in the order of their decorated keys.
WritePartition(key, size) ==
    /\ table = "write"
    /\ Len(data_file) < MaxTablePartitions
    /\ data_file # <<>> => dk_less(data_file[Len(data_file)].key, key)
    /\ LET added == maybe_add_summary_entry(summary, key,
                                            get_data_offset(data_writer, end_offset(data_file)),
                                            end_offset(index_file), index_sampling_state)
       IN  /\ summary' = added.s
           /\ index_sampling_state' = added.state
    /\ data_writer' = consume_end_of_partition_returns(
                          compressed(data_writer, size), end_offset(data_file) + size)
    /\ index_file' = Append(index_file,
                            index_entry(key, end_offset(data_file), end_offset(index_file)))
    /\ data_file' = Append(data_file,
                           [key |-> key, at |-> end_offset(data_file), size |-> size])
    /\ first_last_key' = end_of_partition_keys(first_last_key, key)
    /\ UNCHANGED <<table, summary_file, fileVars, streamVars, parseVars>>

\* consume_end_of_stream: seal_summary, then write_summary with the other
\* components.
SealSummary ==
    /\ table = "write"
    /\ data_file # <<>>
    /\ summary' = seal_summary(summary, first_last_key.first_key, first_last_key.last_key)
    /\ summary_file' = [listed |-> TRUE,
                        bytes |-> Some(write_summary_bytes(
                            seal_summary(summary, first_last_key.first_key,
                                         first_last_key.last_key)))]
    /\ table' = "sealed"
    /\ UNCHANGED <<index_sampling_state, data_writer, index_file, data_file, first_last_key,
                   fileVars, streamVars, parseVars>>

\* The table stays on disk as it was written.
KeepSummary ==
    /\ table = "sealed"
    /\ table' = "stored"
    /\ UNCHANGED <<summary, summary_file, index_sampling_state, data_writer, index_file, data_file,
                   first_last_key, fileVars, streamVars, parseVars>>

Stored(file) ==
    /\ table = "sealed"
    /\ table' = "stored"
    /\ summary_file' = file
    /\ UNCHANGED <<summary, index_sampling_state, data_writer, index_file, data_file, first_last_key,
                   fileVars, streamVars, parseVars>>

\* The Summary file is removed.
RemoveSummary == Stored([summary_file EXCEPT !.bytes = None])

\* The table is stored with a TOC that does not list the Summary.
UnlistSummary == Stored([listed |-> FALSE, bytes |-> None])

\* The Summary file loses its end.
TruncateSummary(n) ==
    /\ table = "sealed"
    /\ n < Len(summary_file.bytes[1])
    /\ Stored([summary_file EXCEPT !.bytes = Some(SubSeq(summary_file.bytes[1], 1, n))])

\* The k-th position of the Summary file, counted from 0, is damaged in its
\* second byte.
DamagePosition(k) ==
    /\ table = "sealed"
    /\ k < Len(summary.positions)
    /\ Stored([summary_file EXCEPT
                  !.bytes = Some([summary_file.bytes[1] EXCEPT
                                     ![HeaderSize + k * PositionSize + 2] = 1])])

\* sstable::read_summary of a new object for the stored table.
ReadSummary(cost) ==
    /\ table = "stored"
    /\ summary' = read_summary(NewSummary, summary_file.listed, summary_file.bytes,
                               index_file, cost)
    /\ table' = "read"
    /\ UNCHANGED <<summary_file, index_sampling_state, data_writer, index_file, data_file,
                   first_last_key, fileVars, streamVars, parseVars>>

InitS ==
    /\ files = [d \in Dirs |-> {}]
    /\ text = [d \in Dirs |-> NoText]
    /\ unsynced = [d \in Dirs |-> {}]
    /\ wst = [w \in Writers |-> "idle"]
    /\ wprog = [w \in Writers |-> <<>>]
    /\ wpc = [w \in Writers |-> 0]
    /\ werr = [w \in Writers |-> FALSE]
    /\ wcfg = [w \in Writers |-> NoCfg]
    /\ recognized_components = [w \in Writers |-> {}]
    /\ unrecognized_components = [w \in Writers |-> <<>>]
    /\ load = [w \in Writers |-> "none"]
    /\ wopen = [w \in Writers |-> {}]
    /\ wq = [w \in Writers |-> <<>>]
    /\ dst = "idle" /\ dpc = 0 /\ dq = <<>> /\ drenamed = FALSE /\ dcrashed = FALSE
    /\ toc_fd = [w \in Writers |-> "closed"]
    /\ started = 0
    /\ sst = "idle" /\ spc = 0 /\ sq = <<>>
    /\ stopped = "no"
    /\ writer_m = NewWriterM(FALSE)
    /\ stream = NoStream
    /\ components_writer = NewComponentsWriter
    /\ table = "write"
    /\ summary = prepare_summary(NewSummary)
    /\ \E cost \in ByteCosts : index_sampling_state = NewSamplingState(cost)
    /\ index_file = <<>>
    /\ data_file = <<>>
    /\ first_last_key = [first_key |-> None, last_key |-> None]
    /\ summary_file = [listed |-> FALSE, bytes |-> None]
    /\ \E compression \in BOOLEAN : \E max_sstable_size \in MaxSSTableSizes :
          data_writer = NewDataWriter(compression, max_sstable_size)
    /\ NoComponent

NextS ==
    \/ \E key \in PartitionKeys : \E size \in PartitionSizes : WritePartition(key, size)
    \/ SealSummary
    \/ KeepSummary
    \/ RemoveSummary
    \/ UnlistSummary
    \/ \E n \in 0..MaxSummarySize : TruncateSummary(n)
    \/ \E k \in 0..(MaxTablePartitions - 1) : DamagePosition(k)
    \/ \E cost \in ByteCosts : ReadSummary(cost)

SpecS == InitS /\ [][NextS]_vars

(***************************************************************************)
(* A Statistics or Scylla component found on disk and read                 *)
(***************************************************************************)

\* The entries a Scylla component may hold.
TaggedEntries ==
    [tag : KnownTags, known : {TRUE}, value : MemberValues]
        \cup [tag : UnknownTags, known : {FALSE}, value : UnknownPayloads]

\* The entries a Statistics component may hold.
TypedEntries ==
    [tag : KnownTypes, known : {TRUE}, value : MemberValues]
        \cup [tag : UnknownTypes, known : {FALSE}, value : UnknownPayloads]

EntryLists(S) == UNION {[1..n -> S] : n \in 0..MaxEntries}

\* A Statistics file has one entry of a type at most, in any order.
DistinctTags(entries) ==
    \A i, j \in DOMAIN entries : i # j => entries[i].tag # entries[j].tag

\* sstable::read_statistics: read_simple<Statistics> parses the file.
ReadStatistics ==
    /\ component.kind = "Statistics"
    /\ parsed = None
    /\ parsed' = Some(parse_statistics(component.version, component.bytes))
    /\ UNCHANGED <<component, fileVars, streamVars, summaryVars>>

\* sstable::read_scylla_metadata: read_simple<Scylla> parses the file.
ReadScyllaMetadata ==
    /\ component.kind = "Scylla"
    /\ parsed = None
    /\ parsed' = Some(parse_tagged_union(component.bytes))
    /\ UNCHANGED <<component, fileVars, streamVars, summaryVars>>

InitP ==
    /\ files = [d \in Dirs |-> {}]
    /\ text = [d \in Dirs |-> NoText]
    /\ unsynced = [d \in Dirs |-> {}]
    /\ wst = [w \in Writers |-> "idle"]
    /\ wprog = [w \in Writers |-> <<>>]
    /\ wpc = [w \in Writers |-> 0]
    /\ werr = [w \in Writers |-> FALSE]
    /\ wcfg = [w \in Writers |-> NoCfg]
    /\ recognized_components = [w \in Writers |-> {}]
    /\ unrecognized_components = [w \in Writers |-> <<>>]
    /\ load = [w \in Writers |-> "none"]
    /\ wopen = [w \in Writers |-> {}]
    /\ wq = [w \in Writers |-> <<>>]
    /\ dst = "idle" /\ dpc = 0 /\ dq = <<>> /\ drenamed = FALSE /\ dcrashed = FALSE
    /\ toc_fd = [w \in Writers |-> "closed"]
    /\ started = 0
    /\ sst = "idle" /\ spc = 0 /\ sq = <<>>
    /\ stopped = "no"
    /\ writer_m = NewWriterM(FALSE)
    /\ stream = NoStream
    /\ components_writer = NewComponentsWriter
    /\ NoTable
    /\ parsed = None
    /\ \E version \in {"la", "mc"} :
          \/ \E entries \in EntryLists(TaggedEntries) :
                component = [kind |-> "Scylla", version |-> version, entries |-> entries,
                             bytes |-> write_tagged_union(entries)]
          \/ \E entries \in EntryLists(TypedEntries) :
                /\ DistinctTags(entries)
                /\ component = [kind |-> "Statistics", version |-> version,
                                entries |-> entries,
                                bytes |-> write_statistics_bytes(entries)]

NextP ==
    \/ ReadStatistics
    \/ ReadScyllaMetadata

SpecP == InitP /\ [][NextP]_vars

(***************************************************************************)
(* A legacy writer given a stream of partitions                            *)
(***************************************************************************)

\* The caller's place in the stream moves; the ModernM writer is not at work.
Placed(stage, rank) ==
    /\ stream' = [stream EXCEPT !.stage = stage, !.rank = rank]
    /\ UNCHANGED <<writer_m, fileVars, summaryVars, parseVars>>

\* cfg.max_sstable_size of the legacy writer: the caller gives no partition to
\* a writer whose consume_end_of_partition has returned stop_iteration::yes.
MaxLegacySSTableSize == 6

ComponentsWriterNewPartition ==
    /\ stream.stage = "none"
    /\ stream.partitions < MaxPartitions
    /\ stop_iteration(components_writer.data_offset, MaxLegacySSTableSize) = "no"
    /\ components_writer' = components_writer_consume_new_partition(components_writer)
    /\ stream' = [stream EXCEPT !.stage = "partition", !.rank = -1,
                                !.partitions = @ + 1]
    /\ UNCHANGED <<writer_m, fileVars, summaryVars, parseVars>>

ComponentsWriterTombstone(t) ==
    /\ stream.stage = "partition"
    /\ components_writer' = components_writer_consume_tombstone(components_writer, t)
    /\ Placed("tombstone", stream.rank)

ComponentsWriterClusteringRow(cr) ==
    /\ stream.stage # "none"
    /\ row_rank(cr.key) > stream.rank
    /\ components_writer' = components_writer_consume_clustering_row(components_writer, cr)
    /\ Placed("clustered", row_rank(cr.key))

ComponentsWriterRangeTombstone(rt) ==
    /\ stream.stage # "none"
    /\ bound_rank(rt_position(rt)) >= stream.rank
    /\ components_writer' = components_writer_consume_range_tombstone(components_writer, rt)
    /\ Placed("clustered", bound_rank(rt_position(rt)))

ComponentsWriterEndOfPartition ==
    /\ stream.stage # "none"
    /\ components_writer' = components_writer_consume_end_of_partition(components_writer)
    /\ Placed("none", stream.rank)

InitL == InitM /\ ~writer_m.static_columns

NextL ==
    \/ ComponentsWriterNewPartition
    \/ \E t \in Tombs : ComponentsWriterTombstone(t)
    \/ \E cr \in ClusteringRows : ComponentsWriterClusteringRow(cr)
    \/ \E rt \in RangeTombstones : ComponentsWriterRangeTombstone(rt)
    \/ ComponentsWriterEndOfPartition

SpecL == InitL /\ [][NextL]_vars

(***************************************************************************)
(* Properties of the writer, the seal, the backup and the removals         *)
(***************************************************************************)

\* The step adds name n to directory d / takes it away.
Appears(d, n) == n \notin files[d] /\ n \in files'[d]

Disappears(d, n) == n \in files[d] /\ n \notin files'[d]

\* The writer w has renamed its TemporaryTOC and is still at work.
PastSeal(w) ==
    /\ wst[w] = "run"
    /\ "seal_sync2" \in Range(wprog[w])
    /\ wpc[w] > IndexOf(wprog[w], "seal_sync2")

\* C1, the steps: a component file is created only while TemporaryTOC exists,
\* its creation flushed, and no TOC does; the TOC comes into being only by the
\* rename a writer makes of its TemporaryTOC at the seal, when every component
\* of the writer's set is there and the directory has been flushed.
C1_Steps ==
    /\ \A n \in DataComponents :
         Appears("dir", n) =>
            /\ "TemporaryTOC" \in files["dir"]
            /\ "TemporaryTOC" \notin unsynced["dir"]
            /\ "TOC" \notin files["dir"]
    /\ Appears("dir", "TOC") =>
         \E w \in Writers :
            /\ At(w, "seal_rename")
            /\ Disappears("dir", "TemporaryTOC")
            /\ recognized_components[w] \ {"TOC"} \subseteq files["dir"]
            /\ unsynced["dir"] = {}

\* C1: in every writer run, of either layout, TemporaryTOC is created and the
\* directory flushed before Data, Index and the other components are created;
\* the directory is flushed, TemporaryTOC is renamed to TOC, and the directory
\* is flushed again; nothing but that rename creates the TOC.
C1_SealOrder ==
    /\ [][C1_Steps]_vars
    /\ [](\A w \in Writers : PastSeal(w) => "TOC" \in files["dir"] /\ "TOC" \notin unsynced["dir"])

\* A writer of either layout has sealed and gone, and the directory holds the
\* flushed generation.
C1_Witness ==
    /\ AllWritersIdle /\ dst = "idle" /\ sst = "idle"
    /\ {"TOC", "Data", "Index", "Scylla"} \subseteq files["dir"]
    /\ unsynced["dir"] = {}
    /\ files["backups"] = {}

\* C2: a writer stopped after TemporaryTOC was written and before the rename,
\* by a crash, by being dropped or by a failing end-of-stream step, leaves a
\* TemporaryTOC and no TOC; remove_sstable_with_temp_toc then leaves no file
\* of the generation.
C2_StoppedWriter ==
    /\ \A w \in Writers :
         Unsealed(w) => "TemporaryTOC" \in files["dir"] /\ "TOC" \notin files["dir"]
    /\ stopped = "stopped" => "TemporaryTOC" \in files["dir"] /\ "TOC" \notin files["dir"]
    /\ stopped = "removed" => files["dir"] = {}

\* The removal by TemporaryTOC has run to its end on what a stopped writer left.
C2_Witness == stopped = "removed" /\ sst = "done"

Writing == \E w \in Writers : wst[w] = "run" /\ "toc_write" \in Range(wprog[w])

\* C4 as the specification states it: during a write and its seal the
\* directory is flushed between every two consecutive steps that change its
\* entries; Data and Index, opened together, are taken as one step.
C4_FlushBetweenAll ==
    [][\A n \in (DataComponents \ {"Data", "Index"}) \cup {"TOC"} :
          (Writing /\ Appears("dir", n)) => unsynced["dir"] = {}]_vars

\* C4, the steps: when the first component file is created the creation of
\* TemporaryTOC has been flushed; when TemporaryTOC is renamed every creation
\* has been flushed; when the first link of the publication is made the
\* rename has been flushed.
C4_Steps ==
    /\ (Writing /\ files["dir"] \cap DataComponents = {} /\ files'["dir"] \cap DataComponents # {})
          => unsynced["dir"] = {}
    /\ (Writing /\ Appears("dir", "TOC")) => unsynced["dir"] = {}
    /\ (Writing /\ files'["backups"] # files["backups"]) => "TOC" \notin unsynced["dir"]

\* C4: during a write and its seal the directory is flushed after
\* TemporaryTOC is created and before the first component file is, after the
\* last component file is created and before the rename, and after the rename;
\* between the creations of the component files it is not flushed.
C4_FlushAroundComponents == [][C4_Steps]_vars

\* The seal's second flush is about to be made, the rename being unflushed,
\* after component files were created with no flush between them.
C4_Witness ==
    \E w \in Writers :
       /\ At(w, "seal_sync2")
       /\ unsynced["dir"] = {"TemporaryTOC", "TOC"}
       /\ {"Data", "Index", "Digest", "Summary", "Statistics", "Scylla"} \subseteq files["dir"]

\* C5: at end of stream, in both writers, no component file besides Data and
\* Index is written, and TemporaryTOC is not renamed, while the Data writer or
\* the Index writer is open.
C5_StreamsClosedFirst ==
    [][\A n \in (DataComponents \ {"Data", "Index"}) \cup {"TOC"} :
          Appears("dir", n) => \A w \in Writers : wopen[w] = {}]_vars

\* A legacy-layout writer has closed both streams and is about to write the
\* first of the other components.
C5_Witness ==
    \E w \in Writers :
       /\ At(w, "write_digest")
       /\ wcfg[w].version = "la"
       /\ wopen[w] = {}
       /\ {"Data", "Index"} \subseteq files["dir"]
       /\ "Digest" \notin files["dir"]

\* The step is made by a removal: remove_by_toc_name or
\* remove_sstable_with_temp_toc.
Removing == dst = "run" \/ sst = "run"

\* C6, the steps: the delete that found a TOC unlinks a file other than the
\* two TOC names only when no TOC exists and TemporaryTOC does, the rename
\* flushed; TemporaryTOC is unlinked only when it is the one file left of the
\* generation and the directory has been flushed.
C6_Steps ==
    /\ \A n \in Names \ TocFiles :
         (dst = "run" /\ drenamed /\ Disappears("dir", n)) =>
            /\ "TOC" \notin files["dir"]
            /\ "TemporaryTOC" \in files["dir"]
            /\ unsynced["dir"] \cap TocFiles = {}
    /\ (Removing /\ Disappears("dir", "TemporaryTOC") /\ ~Appears("dir", "TOC")) =>
            /\ files["dir"] = {"TemporaryTOC"}
            /\ unsynced["dir"] = {}

\* C6: a delete renames TOC to TemporaryTOC and flushes the directory, then
\* unlinks the files the TOC lists, and unlinks TemporaryTOC after them and
\* after a flush: TemporaryTOC is the last file of the generation to go.
C6_TemporaryTocLast == [][C6_Steps]_vars

\* The delete of a sealed generation has unlinked and flushed all it lists
\* and is about to unlink TemporaryTOC.
C6_Witness ==
    /\ DAt("remove_temporary_toc")
    /\ files["dir"] = {"TemporaryTOC"}
    /\ "Scylla" \in Range(text["dir"]["TemporaryTOC"])
    /\ drenamed

\* C7 as the specification states it: every delete ends with a flush of the
\* directory made after TemporaryTOC was unlinked.
C7_FinalFlush ==
    /\ (dst = "done" /\ dpc > Len(remove_by_toc_name)) => unsynced["dir"] = {}
    /\ (sst = "done" /\ spc > Len(remove_sstable_with_temp_toc)) => unsynced["dir"] = {}

\* C10: the component set of a writer holds CompressionInfo and not CRC when
\* a compressor is configured, CRC and not CompressionInfo when none is; and
\* the CRC file is in the directory of the run only in the second case, the
\* CompressionInfo file only in the first.
C10_CrcXorCompressionInfo ==
    \A w \in Writers :
       (wst[w] # "idle" /\ "toc_write" \in Range(wprog[w])) =>
          /\ wcfg[w].compressor =>
                /\ "CompressionInfo" \in recognized_components[w]
                /\ "CRC" \notin recognized_components[w]
          /\ ~wcfg[w].compressor =>
                /\ "CRC" \in recognized_components[w]
                /\ "CompressionInfo" \notin recognized_components[w]
          /\ (Unsealed(w) /\ "CRC" \in files["dir"]) => ~wcfg[w].compressor
          /\ (Unsealed(w) /\ "CompressionInfo" \in files["dir"]) => wcfg[w].compressor

\* A writer with a compressor is about to seal: CompressionInfo is written
\* and no CRC file is.
C10_Witness ==
    \E w \in Writers :
       /\ At(w, "seal_sync1")
       /\ wcfg[w].compressor
       /\ "CompressionInfo" \in files["dir"]
       /\ "CRC" \notin files["dir"]

\* A writer without a compressor is about to seal: the CRC file is written.
C10_WitnessUncompressed ==
    \E w \in Writers :
       /\ At(w, "seal_sync1")
       /\ ~wcfg[w].compressor
       /\ "CRC" \in files["dir"]

(***************************************************************************)
(* Properties of the loaded TOC                                            *)
(***************************************************************************)

\* The lines that name something the component map does not know.
unknown_lines(lines) == {c \in Range(lines) : c # "" /\ c \notin ComponentMap}

\* The step is read_toc reading the TOC file into the object of w.
Loads(w) == load[w] = "none" /\ load'[w] # "none" /\ "TOC" \in files["dir"]

\* The object of w' holds the unknown names of the TOC apart from the
\* recognized ones, and all_components tags them Unknown.
KeptUnknown(w) ==
    /\ load'[w] = "ok"
    /\ recognized_components'[w] = Range(text["dir"]["TOC"]) \cap ComponentMap
    /\ \A c \in unknown_lines(text["dir"]["TOC"]) :
          /\ c \in Range(unrecognized_components'[w])
          /\ c \notin recognized_components'[w]
          /\ [type |-> "Unknown", name |-> c]
                \in Range(all_components(recognized_components'[w], unrecognized_components'[w]))
    /\ \A c \in recognized_components'[w] :
          [type |-> c, name |-> c]
             \in Range(all_components(recognized_components'[w], unrecognized_components'[w]))

C8_WitnessRewritten ==
    \E w \in Writers :
       /\ load[w] = "ok"
       /\ At(w, "toc_sync")
       /\ SomethingNew \in Range(unrecognized_components[w])

\* C9 as the specification states it: loading a TOC with a line the component
\* map does not know does not fail; the name is kept as unrecognized, is not
\* recognized, and all_components reports it as Unknown beside the recognized.
C9_UnknownLineLoads ==
    [][\A w \in Writers :
          (Loads(w) /\ unknown_lines(text["dir"]["TOC"]) # {}) => KeptUnknown(w)]_vars

\* C9: loading a TOC with a line the component map does not know does not
\* fail provided the file is shorter than the 4096 bytes read and names a
\* recognized component as well: then the name is kept as unrecognized, is not
\* recognized, and all_components reports it as Unknown beside the recognized.
\* A TOC of 4096 bytes or more, or with no recognized name, is malformed.
C9_UnknownLineLoadsIfSmall ==
    [][\A w \in Writers :
          (Loads(w) /\ unknown_lines(text["dir"]["TOC"]) # {}) =>
             IF /\ toc_size(text["dir"]["TOC"]) < TocBufSize
                /\ Range(text["dir"]["TOC"]) \cap ComponentMap # {}
             THEN KeptUnknown(w)
             ELSE load'[w] = "malformed"]_vars

\* A TOC with the lines Data and SomethingNew has been loaded.
C9_Witness ==
    \E w \in Writers :
       /\ load[w] = "ok"
       /\ SomethingNew \in Range(unrecognized_components[w])
       /\ "Data" \in recognized_components[w]

\* A TOC whose only name is SomethingNew has been found malformed.
C9_WitnessEmpty ==
    \E w \in Writers :
       /\ load[w] = "malformed"
       /\ unrecognized_components[w] = <<SomethingNew>>

(***************************************************************************)
(* The ModernM writer's range tombstone markers                            *)
(***************************************************************************)

BoundaryKinds == {"excl_end_incl_start", "incl_end_excl_start"}

\* The bound position a marker of the Data file is written at.
written_position(m) ==
    2 * m.clustering + (IF m.kind \in {"incl_start", "excl_end", "excl_end_incl_start"} THEN 0 ELSE 1)

\* The range tombstones the loop of drain_tombstones took in the handler that
\* ran last.
Drained == {writer_m.drained[i] : i \in DOMAIN writer_m.drained}

\* After e the writer is open with the end of e's range tombstone pending.
OpenWithEndOf(e) ==
    /\ e.after # None
    /\ e.after[1].kind \in EndKinds
    /\ marker_position(e.after[1]) = rt_end_position(e.rt)
    /\ e.after[1].tomb = e.rt.tomb

\* m is the boundary marker at the start of e's range tombstone that closes
\* the tombstone that was open and opens that of e's range tombstone.
BoundaryOf(m, e) ==
    /\ m.el = "marker"
    /\ m.kind \in BoundaryKinds
    /\ written_position(m) = rt_position(e.rt)
    /\ m.tomb = e.before[1].tomb
    /\ m.boundary_tomb = e.rt.tomb

\* m is the start marker of e's range tombstone.
StartOf(m, e) ==
    /\ m.el = "marker"
    /\ m.kind \in StartKinds
    /\ written_position(m) = rt_position(e.rt)
    /\ m.tomb = e.rt.tomb
    /\ m.boundary_tomb = 0

\* m is the end marker that was pending before e.
PendingEndOf(m, e) ==
    /\ m.el = "marker"
    /\ m.kind \in EndKinds
    /\ written_position(m) = marker_position(e.before[1])
    /\ m.tomb = e.before[1].tomb
    /\ m.boundary_tomb = 0

Adjacent(e) == e.before # None /\ rt_position(e.rt) = marker_position(e.before[1])

Overlapped(e) == e.before # None /\ rt_position(e.rt) < marker_position(e.before[1])

Apart(e) == e.before # None /\ rt_position(e.rt) > marker_position(e.before[1])

\* C11: when an end marker is pending and the next range tombstone drained
\* starts at exactly the pending end marker's position, the writer writes one
\* boundary marker at that position, carrying the old and the new tombstone,
\* and no other marker, and is then open with the new range tombstone's end
\* pending.
C11_AdjacentBoundary ==
    \A e \in Drained :
        Adjacent(e) =>
            /\ Len(e.wrote) = 1
            /\ BoundaryOf(e.wrote[1], e)
            /\ written_position(e.wrote[1]) = marker_position(e.before[1])
            /\ OpenWithEndOf(e)

C11_Witness ==
    \E e \in Drained :
        /\ Adjacent(e)
        /\ e.before[1].tomb # e.rt.tomb
        /\ Len(e.wrote) = 1 /\ e.wrote[1].kind \in BoundaryKinds

\* C12: when an end marker is pending and the next range tombstone drained
\* starts before the pending end marker's position with a tombstone that
\* differs from the open one, the writer writes a single boundary marker at
\* the new range tombstone's start, closing the old tombstone and opening the
\* new, and the pending end becomes the new range tombstone's end.
C12_OverlappedBoundary ==
    \A e \in Drained :
        (Overlapped(e) /\ e.before[1].tomb # e.rt.tomb) =>
            /\ Len(e.wrote) = 1
            /\ BoundaryOf(e.wrote[1], e)
            /\ OpenWithEndOf(e)

C12_Witness ==
    \E e \in Drained :
        /\ Overlapped(e) /\ e.before[1].tomb # e.rt.tomb
        /\ Len(e.wrote) = 1 /\ e.wrote[1].kind \in BoundaryKinds

\* C13: when an end marker is pending and the next range tombstone drained
\* starts before the pending end marker's position with the tombstone that is
\* open, the writer writes no marker and takes the new range tombstone's end
\* as the pending end.
C13_OverlappedSameTombstone ==
    \A e \in Drained :
        (Overlapped(e) /\ e.before[1].tomb = e.rt.tomb) =>
            /\ e.wrote = <<>>
            /\ OpenWithEndOf(e)

C13_Witness ==
    \E e \in Drained :
        /\ Overlapped(e) /\ e.before[1].tomb = e.rt.tomb
        /\ e.wrote = <<>>
        /\ e.after # e.before

\* The markers of the partition's Data written before its i-th element.
MarkersBefore(i) == {j \in 1..(i - 1) : writer_m.data[j].el = "marker"}

\* The marker written last before the i-th element, when there is one.
MarkerBefore(i) ==
    writer_m.data[CHOOSE j \in MarkersBefore(i) : \A k \in MarkersBefore(i) : k <= j]

\* C14: when the next range tombstone drained starts after the pending end
\* marker's position the writer writes the pending end marker and then the
\* start marker of the new range tombstone; when no end marker is pending it
\* writes only the start marker; either way it is then open with the new
\* range tombstone's end pending.  In the Data file a start marker therefore
\* follows either no marker or an end marker that lies before it.
C14_EndThenStart ==
    /\ \A e \in Drained :
          /\ Apart(e) =>
                /\ Len(e.wrote) = 2
                /\ PendingEndOf(e.wrote[1], e)
                /\ StartOf(e.wrote[2], e)
                /\ OpenWithEndOf(e)
          /\ e.before = None =>
                /\ Len(e.wrote) = 1
                /\ StartOf(e.wrote[1], e)
                /\ OpenWithEndOf(e)
    /\ \A i \in DOMAIN writer_m.data :
          (writer_m.data[i].el = "marker" /\ writer_m.data[i].kind \in StartKinds
              /\ MarkersBefore(i) # {}) =>
                /\ MarkerBefore(i).kind \in EndKinds
                /\ written_position(MarkerBefore(i)) < written_position(writer_m.data[i])

C14_Witness ==
    \E e \in Drained : \E i \in 2..Len(writer_m.data) :
        /\ e.before = None
        /\ e.wrote = <<writer_m.data[i]>>
        /\ StartOf(writer_m.data[i], e)
        /\ writer_m.data[i - 1].el = "marker"
        /\ writer_m.data[i - 1].kind \in EndKinds
        /\ written_position(writer_m.data[i - 1]) < rt_position(e.rt)

(***************************************************************************)
(* The ModernM writer's partitions                                         *)
(***************************************************************************)

Markers(data) == {j \in DOMAIN data : data[j].el = "marker"}

LastMarker(data) == data[CHOOSE j \in Markers(data) : \A k \in Markers(data) : k <= j]

\* The tombstone of the range tombstone open after data: that of the start or
\* boundary marker written last when no end marker follows it, 0 for none.
OpenTomb(data) ==
    IF Markers(data) = {} THEN 0
    ELSE IF LastMarker(data).kind \in StartKinds THEN LastMarker(data).tomb
    ELSE IF LastMarker(data).kind \in BoundaryKinds THEN LastMarker(data).boundary_tomb
    ELSE 0

\* The partition at hand has ended.
Ended == stream.stage = "none" /\ stream.partitions > 0

EndsPartition == stream.stage # "none" /\ stream'.stage = "none"

EndOfPartition(e) == e.el = "end_of_partition"

\* The pending end marker m as the Data file holds it at offset at.
WrittenAt(m, at) == [m EXCEPT !.at = at]

\* C15: at consume_end_of_partition an end marker that is pending is written
\* before the end-of-partition flag, and once the partition has ended no end
\* marker is pending.
C15_EndMarkerBeforeFlag ==
    [][EndsPartition =>
          /\ writer_m'.end_open_marker = None
          /\ EndOfPartition(writer_m'.data[Len(writer_m'.data)])
          /\ OpenTomb(writer_m'.data) = 0
          /\ (writer_m.end_open_marker # None /\ rts_empty(writer_m.range_tombstones)) =>
                writer_m'.data =
                    writer_m.data \o
                    <<WrittenAt(writer_m.end_open_marker[1], writer_m.data_offset),
                      WrittenAt(element("end_of_partition", 0, "none", 0, 0, 1),
                                writer_m.data_offset + writer_m.end_open_marker[1].size)>>]_vars

C15_Witness ==
    /\ Ended
    /\ writer_m.drained = <<>>
    /\ Len(writer_m.data) > 2
    /\ writer_m.data[Len(writer_m.data) - 1].el = "marker"
    /\ writer_m.data[Len(writer_m.data) - 1].kind \in EndKinds
    /\ EndOfPartition(writer_m.data[Len(writer_m.data)])
    /\ writer_m.end_open_marker = None

\* The place of an element in the layout of a partition.
Section(e) ==
    CASE e.el = "partition_key" -> 0
      [] e.el = "deletion_time" -> 1
      [] e.el = "static_row" -> 2
      [] e.el \in {"row", "marker"} -> 3
      [] e.el = "end_of_partition" -> 4

\* The rank of a clustered element in clustering order: a row lies between the
\* bounds before and after its key.
ClusteringRank(e) == IF e.el = "row" THEN 4 * e.clustering + 1 ELSE 2 * written_position(e)

Count(data, el) == Cardinality({i \in DOMAIN data : data[i].el = el})

\* C16: the Data of every partition is the partition key, exactly one
\* partition deletion time, at most one static row, then rows and markers in
\* strictly ascending clustering order, then exactly one end-of-partition
\* flag, whatever the producer's stream-ordered calls were.
C16_PartitionLayout ==
    /\ \A i, j \in DOMAIN writer_m.data :
          i < j =>
             /\ Section(writer_m.data[i]) <= Section(writer_m.data[j])
             /\ Section(writer_m.data[i]) = Section(writer_m.data[j]) =>
                   /\ Section(writer_m.data[i]) = 3
                   /\ ClusteringRank(writer_m.data[i]) < ClusteringRank(writer_m.data[j])
    /\ stream.stage # "none" =>
          /\ Count(writer_m.data, "partition_key") = 1
          /\ Count(writer_m.data, "end_of_partition") = 0
          /\ stream.stage = "clustered" => Count(writer_m.data, "deletion_time") = 1
    /\ Ended =>
          /\ Count(writer_m.data, "partition_key") = 1
          /\ Count(writer_m.data, "deletion_time") = 1
          /\ Count(writer_m.data, "end_of_partition") = 1

C16_Witness ==
    /\ Ended
    /\ \E i \in DOMAIN writer_m.data :
          writer_m.data[i].el = "deletion_time" /\ writer_m.data[i].tomb = 0
    /\ Count(writer_m.data, "static_row") = 1
    /\ Count(writer_m.data, "row") = 2
    /\ Count(writer_m.data, "marker") >= 2

(***************************************************************************)
(* The ModernM writer's promoted index                                     *)
(***************************************************************************)

\* The offset in the Data file of the partition's first byte: that of its key.
PartitionStart == writer_m.data[1].at

Blocks == DOMAIN writer_m.promoted_index

Block(i) == writer_m.promoted_index[i]

\* The element of the partition's Data a block names as its first, and the
\* offset in the Data file of the block's first byte.
FirstOf(b) ==
    CHOOSE e \in Range(writer_m.data) :
        e.el \in {"row", "marker"} /\ e.clustering = b.first.clustering /\ e.kind = b.first.kind

BlockStart(b) == FirstOf(b).at

\* The offset in the Data file of the byte after the block's last.
BlockEnd(b) == BlockStart(b) + b.width

\* What the Data file holds of the partition up to the end of the block.
DataUpTo(b) == SelectSeq(writer_m.data, LAMBDA e : e.at < BlockEnd(b))

\* C17: a promoted-index block carries an open-marker tombstone exactly when
\* a range tombstone is open at the block's end, a start or boundary marker
\* having been written and no marker closing it, and the tombstone carried is
\* that of the open range tombstone.
C17_OpenMarkerIffOpen ==
    \A i \in Blocks :
        /\ Block(i).open_marker # None <=> OpenTomb(DataUpTo(Block(i))) # 0
        /\ Block(i).open_marker # None => Block(i).open_marker[1] = OpenTomb(DataUpTo(Block(i)))

C17_Witness ==
    /\ \E i \in Blocks :
          /\ Block(i).open_marker # None
          /\ LastMarker(DataUpTo(Block(i))).kind \in BoundaryKinds
    /\ \E i \in Blocks :
          /\ Block(i).open_marker = None
          /\ Markers(DataUpTo(Block(i))) # {}

\* The offset in the Data file of the first byte after the partition header
\* (the key, the deletion time and the static row).
HeaderEnd == PartitionStart + writer_m.partition_header_length

\* C18 as claimed: a block's offset is the distance from the first byte after
\* the partition header to the block's first byte.
C18_OffsetFromHeaderEnd ==
    \A i \in Blocks : Block(i).offset = BlockStart(Block(i)) - HeaderEnd

\* C18: a block's offset is the distance from the partition's first byte, the
\* first of its header, to the block's first byte; the first block's offset
\* is the length of the partition header.
C18_OffsetFromPartitionStart ==
    \A i \in Blocks :
        /\ Block(i).offset = BlockStart(Block(i)) - PartitionStart
        /\ i = 1 => Block(i).offset = writer_m.partition_header_length

C18_Witness ==
    /\ writer_m.data # <<>>
    /\ PartitionStart > 0
    /\ Len(writer_m.promoted_index) >= 2
    /\ Block(1).offset = writer_m.partition_header_length
    /\ Block(2).offset = Block(1).offset + Block(1).width
    /\ writer_m.index # None /\ writer_m.index[1].blocks = writer_m.promoted_index

\* The rows and markers of the partition's Data.
Clustered == {e \in Range(writer_m.data) : e.el \in {"row", "marker"}}

\* The offsets in the Data file at which the blocks recorded end.
BlockEnds == {BlockEnd(Block(i)) : i \in Blocks}

\* The offset at which the block that holds e starts: where the block before
\* it ends, or at the partition's first row or marker.
CurrentBlockStart(e) ==
    IF \E x \in BlockEnds : x <= e.at
    THEN CHOOSE x \in BlockEnds : x <= e.at /\ \A y \in BlockEnds : y <= e.at => y <= x
    ELSE CHOOSE x \in {c.at : c \in Clustered} : \A c \in Clustered : x <= c.at

\* C19: a block is closed right after a row or marker is written exactly when
\* the Data written since the start of the block at hand has then reached the
\* desired block size; every block of a partition but the last is therefore
\* at least that wide.
C19_BlockClosedWhenFull ==
    /\ \A e \in Clustered :
          (e.at + e.size) \in BlockEnds <=>
              (e.at + e.size) - CurrentBlockStart(e) >= DesiredBlockSize
    /\ \A i \in Blocks : i < Len(writer_m.promoted_index) => Block(i).width >= DesiredBlockSize

C19_Witness ==
    /\ Ended
    /\ Len(writer_m.promoted_index) = 2
    /\ Block(1).width = DesiredBlockSize
    /\ Block(2).width < DesiredBlockSize
    /\ \E e \in Clustered : (e.at + e.size) \notin BlockEnds

\* C20: at the end of a partition the Index entry gets a promoted index of
\* size zero when fewer than 2 blocks were collected for the partition, and
\* else a promoted index that lists every block collected.
C20_PromotedIndexFromTwoBlocks ==
    /\ stream.stage # "none" => writer_m.index = None
    /\ Ended =>
          /\ writer_m.index # None
          /\ Len(writer_m.promoted_index) < 2 =>
                writer_m.index[1].size = 0 /\ writer_m.index[1].blocks = <<>>
          /\ Len(writer_m.promoted_index) >= 2 =>
                writer_m.index[1].size > 0 /\ writer_m.index[1].blocks = writer_m.promoted_index

C20_Witness ==
    /\ Ended
    /\ Len(writer_m.promoted_index) = 1
    /\ writer_m.index = Some(NoPromotedIndex)

C20_WitnessListed ==
    /\ Ended
    /\ Len(writer_m.promoted_index) = 3
    /\ writer_m.index # None
    /\ writer_m.index[1].blocks = writer_m.promoted_index

(***************************************************************************)
(* The ModernM writer's static row                                         *)
(***************************************************************************)

StaticRowsWritten == {i \in DOMAIN writer_m.data : writer_m.data[i].el = "static_row"}

\* The static rows in the Data file that hold no cell.
EmptyStaticRowsWritten == {i \in StaticRowsWritten : writer_m.data[i].size = 1 + EmptyStaticRow}

\* The writer has gone past the partition's header: a row or a range
\* tombstone was consumed, or the partition was ended.
PastHeader == stream.stage = "clustered" \/ Ended

\* C21: a static row follows the partition's deletion time at once, also when
\* the producer gave no partition tombstone; an empty static row is in the
\* Data file exactly when the schema has static columns, the producer gave
\* the partition no static row and the writer is past the partition's
\* header, and then it is the only static row.
C21_SyntheticStaticRow ==
    /\ \A i \in StaticRowsWritten :
          /\ i = 3
          /\ writer_m.data[i - 1].el = "deletion_time"
          /\ Count(writer_m.data, "deletion_time") = 1
    /\ stream.stage = "static_row" =>
          /\ StaticRowsWritten = {Len(writer_m.data)}
          /\ EmptyStaticRowsWritten = {}
    /\ stream.partitions > 0 =>
          /\ Cardinality(StaticRowsWritten) <= 1
          /\ EmptyStaticRowsWritten # {} <=>
                writer_m.static_columns /\ ~stream.static_row /\ PastHeader
          /\ stream.static_row => Cardinality(StaticRowsWritten) = 1

\* A partition with neither tombstone nor static row was ended in a schema
\* with static columns, after a row was written.
C21_Witness ==
    /\ Ended
    /\ writer_m.static_columns
    /\ ~stream.static_row
    /\ Cardinality(EmptyStaticRowsWritten) = 1
    /\ writer_m.data[2].tomb = 0
    /\ Count(writer_m.data, "row") = 1

\* The producer gave a static row and no partition tombstone: the deletion
\* time was written before the row.
C21_WitnessGiven ==
    /\ stream.stage = "static_row"
    /\ writer_m.data[2].el = "deletion_time"
    /\ writer_m.data[2].tomb = 0
    /\ EmptyStaticRowsWritten = {}

(***************************************************************************)
(* The Summary component                                                   *)
(***************************************************************************)

\* The summary entry that samples the i-th entry of the Index.
EntryOf(i) == [key |-> index_file[i].key, position |-> index_file[i].at]

Entries == {summary.entries[i] : i \in DOMAIN summary.entries}

\* The table was sealed by its writer and has not been stored yet.
Sealed == table = "sealed"

\* C22 as stated: the entries of the sealed summary include the first and
\* the last entry of the Index.
C22_FirstAndLastEntries ==
    Sealed => EntryOf(1) \in Entries /\ EntryOf(Len(index_file)) \in Entries

\* C22: the sealed summary's first entry samples the first entry of the
\* Index, every entry samples an entry of the Index, and first_key and
\* last_key are the keys of the first and of the last partition.
C22_FirstEntryAndBothKeys ==
    Sealed =>
        /\ summary.entries[1] = EntryOf(1)
        /\ Entries \subseteq {EntryOf(i) : i \in DOMAIN index_file}
        /\ summary.first_key = data_file[1].key
        /\ summary.last_key = data_file[Len(data_file)].key

\* Three partitions were written and the last one is not among the entries.
C22_Witness ==
    /\ Sealed
    /\ Len(data_file) = MaxTablePartitions
    /\ EntryOf(Len(index_file)) \notin Entries
    /\ summary.last_key = data_file[Len(data_file)].key

(***************************************************************************)
(* A call of maybe_add_summary_entry by the writer                         *)
(***************************************************************************)

\* The writer's call of this step: a partition is appended to the Data file.
Called == table = "write" /\ Len(data_file') = Len(data_file) + 1

\* The call's data_offset has reached the threshold.
Reached ==
    get_data_offset(data_writer, end_offset(data_file))
        >= index_sampling_state.next_data_offset_to_write_summary

Threshold == index_sampling_state.next_data_offset_to_write_summary

\* C23 as stated: a call below the threshold leaves the summary and the
\* sampling state as they were.
C23_NoOpBelowThreshold ==
    [][Called /\ ~Reached =>
          summary' = summary /\ index_sampling_state' = index_sampling_state]_vars

\* C23: a call below the threshold appends no entry and leaves the threshold
\* and the byte cost as they were; it counts the partition.
C23_CountedBelowThreshold ==
    [][Called /\ ~Reached =>
          /\ summary' = summary
          /\ index_sampling_state' =
                [index_sampling_state EXCEPT !.partition_count = @ + 1]]_vars

\* A partition was written whose call added no entry.
C23_Witness ==
    /\ table = "write"
    /\ Len(data_file) = 2
    /\ Len(summary.entries) = 1
    /\ index_sampling_state.partition_count = 2

\* C24: a call at or beyond the threshold appends one entry of the given key
\* and index offset and raises the threshold by summary_byte_cost times
\* (8 + 2 + the key's length); no call lowers the threshold or changes the
\* entries already there.
C24_EntryAtThreshold ==
    [][Called =>
          /\ Reached =>
                /\ summary'.entries =
                      Append(summary.entries,
                             [key |-> data_file'[Len(data_file')].key,
                              position |-> end_offset(index_file)])
                /\ index_sampling_state'.next_data_offset_to_write_summary =
                      Threshold + index_sampling_state.summary_byte_cost
                                    * (8 + 2 + Len(data_file'[Len(data_file')].key))
          /\ index_sampling_state'.next_data_offset_to_write_summary >= Threshold
          /\ Len(summary'.entries) >= Len(summary.entries)
          /\ SubSeq(summary'.entries, 1, Len(summary.entries)) = summary.entries]_vars

\* Two entries were added for keys of different lengths, at a byte cost
\* above one.
C24_Witness ==
    /\ table = "write"
    /\ Len(summary.entries) = 2
    /\ Len(summary.entries[1].key) # Len(summary.entries[2].key)
    /\ index_sampling_state.summary_byte_cost = 2
    /\ index_sampling_state.next_data_offset_to_write_summary = 2 * (10 + 1) + 2 * (10 + 2)

(***************************************************************************)
(* The sealed summary and its bytes                                        *)
(***************************************************************************)

RECURSIVE SizeOfEntries(_, _)
\* The bytes the first n entries take in the Summary file.
SizeOfEntries(entries, n) ==
    IF n = 0 THEN 0
    ELSE SizeOfEntries(entries, n - 1) + Len(write_summary_entry(entries[n]))

\* The bytes of the Summary file from byte `from`, counted from 0, for the
\* length of entry i.
BytesOfEntry(from, i) ==
    SubSeq(summary_file.bytes[1], from + 1, from + Len(write_summary_entry(summary.entries[i])))

\* Where the positions array and the entries region start in the file.
PositionsStart == HeaderSize

EntriesStart == HeaderSize + Len(summary.positions) * PositionSize

SealedSizes ==
    /\ summary.header.size = Len(summary.entries)
    /\ Len(summary.positions) = Len(summary.entries)
    /\ summary.header.memory_size =
          Len(summary.positions) * PositionSize
              + SizeOfEntries(summary.entries, Len(summary.entries))

\* C25 as stated: positions[i] is the offset of entry i from the start of
\* the entries.
C25_PositionsFromEntries ==
    Sealed =>
        /\ SealedSizes
        /\ \A i \in DOMAIN summary.positions :
              summary.positions[i] = SizeOfEntries(summary.entries, i - 1)

\* C25: after the writer's seal header.size is the number of entries,
\* positions[i] is the offset of entry i from the start of the positions
\* array, which is where the file has the entry's bytes, memory_size is the
\* size of the positions array and the entries together, and parsing the
\* written file gives the sealed summary back.
C25_PositionsFromPositionsArray ==
    Sealed =>
        /\ SealedSizes
        /\ \A i \in DOMAIN summary.positions :
              /\ summary.positions[i] =
                    Len(summary.positions) * PositionSize
                        + SizeOfEntries(summary.entries, i - 1)
              /\ BytesOfEntry(PositionsStart + summary.positions[i], i)
                    = write_summary_entry(summary.entries[i])
        /\ parse_summary(summary_file.bytes[1], NewSummary) = [ok |-> TRUE, s |-> summary]

\* A sealed summary of two entries with keys of different lengths: the
\* second entry's bytes are not at its position counted from the entries.
C25_Witness ==
    /\ Sealed
    /\ Len(summary.entries) = 2
    /\ Len(summary.entries[1].key) # Len(summary.entries[2].key)
    /\ BytesOfEntry(EntriesStart + summary.positions[2], 2)
          # write_summary_entry(summary.entries[2])

(***************************************************************************)
(* The Summary read again                                                  *)
(***************************************************************************)

\* What read_simple<Summary> made of the stored file for a new object.
ReadOfStored == read_simple_summary(summary_file.bytes, NewSummary)

\* The stored table's Summary is missing or is not parsed.
Unreadable == ~summary_file.listed \/ ~ReadOfStored.ok

\* The entries maybe_add_summary_entry gives for the entries of the Index,
\* in their order, at a byte cost.
Sampled(cost) ==
    consume_entries(index_file, 1,
                    [s |-> NewSummary, state |-> NewSamplingState(cost)], None, None).s.entries

\* C26: when the Summary of a table is missing or is not parsed,
\* read_summary leaves a summary whose entries are those the sampling gives
\* for the entries of the Index, and whose first_key and last_key are the
\* keys of the first and of the last partition.
C26_RebuiltFromIndex ==
    table = "read" /\ Unreadable =>
        /\ \E cost \in ByteCosts : summary.entries = Sampled(cost)
        /\ summary.first_key = data_file[1].key
        /\ summary.last_key = data_file[Len(data_file)].key

(***************************************************************************)
(* Statistics and Scylla metadata read                                     *)
(***************************************************************************)

\* The component was read, and what its parse returned.
WasRead(kind) == component.kind = kind /\ parsed # None

Result == parsed[1]

\* The entries of the component without those of a tag the reader does not
\* know.
KnownEntries == SelectSeq(component.entries, LAMBDA e : e.known)

\* What the reader has of a parse: whether it failed, with what, and the
\* members.
Outcome(r) == [ok |-> r.ok, error |-> r.error, data |-> r.data]

C27_WitnessStatistics ==
    /\ WasRead("Statistics")
    /\ Len(component.entries) = 2
    /\ ~component.entries[1].known /\ Len(component.entries[1].value) = 5
    /\ component.entries[2].tag = metadata_type.Stats
    /\ Result.ok
    /\ Result.data = <<[tag |-> metadata_type.Stats, value |-> component.entries[2].value]>>

HasSerializationHeader ==
    \E i \in DOMAIN component.entries : component.entries[i].tag = metadata_type.Serialization

C28_WitnessMc ==
    /\ WasRead("Statistics")
    /\ component.version = "mc"
    /\ HasSerializationHeader
    /\ Result.ok
    /\ Len(Result.data) = 2

(***************************************************************************)
(* The order of the partitions in the Data and Index files                 *)
(***************************************************************************)

\* The partitions of the Data file are in strictly ascending order of their
\* decorated keys, and the Index has an entry for each, in the same order,
\* that points at it.
Ordered(data, index) ==
    /\ \A i, j \in DOMAIN data : i < j => dk_less(data[i].key, data[j].key)
    /\ Len(index) = Len(data)
    /\ \A i \in DOMAIN data :
          index[i].key = data[i].key /\ index[i].position = data[i].at

\* C29: a partition the writer is given goes to the end of the Data file and
\* its entry to the end of the Index, behind everything written before, so
\* that with partitions given in the order of their decorated keys both
\* files are in strictly ascending (token, key) order.
C29_PartitionsInCallOrder ==
    [][Called =>
          /\ \E size \in PartitionSizes : \E key \in PartitionKeys :
                /\ data_file' = Append(data_file,
                                       [key |-> key, at |-> end_offset(data_file),
                                        size |-> size])
                /\ SubSeq(index_file', 1, Len(index_file)) = index_file
                /\ Len(index_file') = Len(index_file) + 1
                /\ index_file'[Len(index_file')].key = key
          /\ Ordered(data_file', index_file')]_vars

\* Three partitions are in the files in the order of their tokens, which is
\* not the order of the bytes of their keys.
C29_Witness ==
    /\ Len(data_file) = MaxTablePartitions
    /\ Ordered(data_file, index_file)
    /\ bytes_less(data_file[3].key, data_file[1].key)
    /\ data_file[3].at > data_file[2].at

(***************************************************************************)
(* The partition written and read again                                    *)
(***************************************************************************)

PartitionWritten == stream.stage = "none" /\ stream.partitions > 0

\* C30: the partition the writer has written for a mutation of the stream,
\* read again in a full scan, is that mutation, with overlapping range
\* tombstones resolved, followed by the end of the partition.
C30_RoundTrip ==
    PartitionWritten =>
        LET r == read_rows(writer_m.data)
        IN  r.ok /\ r.done /\ r.mutation = stream.mutation

\* A partition with a tombstone, a static row, a row and two range
\* tombstones that meet in a boundary is read again.
C30_Witness ==
    /\ PartitionWritten
    /\ stream.mutation.tomb # 0
    /\ stream.mutation.static_row # EmptyStaticRow
    /\ \E k \in Keys : stream.mutation.rows[k] # 0
    /\ \E i \in DOMAIN stream.mutation.range_tombstones :
          /\ i + 1 \in DOMAIN stream.mutation.range_tombstones
          /\ stream.mutation.range_tombstones[i] # 0
          /\ stream.mutation.range_tombstones[i + 1] # 0
          /\ stream.mutation.range_tombstones[i] # stream.mutation.range_tombstones[i + 1]
    /\ \E i \in DOMAIN writer_m.data : writer_m.data[i].boundary_tomb # 0
    /\ read_rows(writer_m.data).mutation = stream.mutation

(***************************************************************************)
(* The ModernM writer's markers are well-bracketed                         *)
(***************************************************************************)

\* The tombstone a marker leaves open: a start marker's own, a boundary's
\* second.
OpenedBy(m) == IF m.kind \in StartKinds THEN m.tomb ELSE m.boundary_tomb

\* A range tombstone is open before the i-th element of the partition: the
\* marker written last before it is a start or a boundary.
OpenBefore(i) == MarkersBefore(i) # {} /\ MarkerBefore(i).kind \notin EndKinds

\* The stream stands between two partitions, or at the start of one.
BetweenPartitions == stream.stage \in {"none", "partition"}

\* C35: the markers of every partition are well-bracketed: a start marker is
\* written only when no range tombstone is open, a boundary or an end marker
\* only when one is open and with the tombstone that was opened as its
\* closing tombstone, and no range tombstone is open, in the file or in the
\* writer, when a partition has ended and when the next one starts.
C35_WellBracketed ==
    /\ \A i \in DOMAIN writer_m.data :
          writer_m.data[i].el = "marker" =>
              IF writer_m.data[i].kind \in StartKinds
              THEN ~OpenBefore(i)
              ELSE /\ OpenBefore(i)
                   /\ writer_m.data[i].tomb = OpenedBy(MarkerBefore(i))
    /\ BetweenPartitions =>
          /\ writer_m.end_open_marker = None
          /\ ~OpenBefore(Len(writer_m.data) + 1)

\* A partition with a start marker, a boundary and an end marker has ended,
\* and it is not the writer's first.
C35_Witness ==
    /\ stream.stage = "none"
    /\ stream.partitions = MaxPartitions
    /\ \E i, j, k \in DOMAIN writer_m.data :
          /\ i < j /\ j < k
          /\ writer_m.data[i].el = "marker" /\ writer_m.data[i].kind \in StartKinds
          /\ writer_m.data[j].el = "marker" /\ writer_m.data[j].kind \in BoundaryKinds
          /\ writer_m.data[k].el = "marker" /\ writer_m.data[k].kind \in EndKinds
          /\ writer_m.data[j].tomb = writer_m.data[i].tomb
          /\ writer_m.data[k].tomb = writer_m.data[j].boundary_tomb

(***************************************************************************)
(* The blocks of the ModernM promoted index lie end to end                 *)
(***************************************************************************)

\* The blocks lie end to end inside a partition of the given length, the
\* first one at or after the end of the partition's header.
Contiguous(blocks, header_length, partition_length) ==
    \A i \in DOMAIN blocks :
        /\ blocks[i].width > 0
        /\ blocks[i].offset >= header_length
        /\ blocks[i].offset + blocks[i].width <= partition_length
        /\ i > 1 => /\ blocks[i].offset = blocks[i - 1].offset + blocks[i - 1].width
                    /\ blocks[i].offset > blocks[i - 1].offset

\* C38: the blocks of a partition's promoted index have strictly increasing
\* offsets, each block starts where the block before it ends, and all of
\* them lie inside the bytes of the partition; this holds of the blocks as
\* they are recorded and of the promoted index written to the Index file.
C38_BlocksContiguous ==
    /\ Contiguous(writer_m.promoted_index, writer_m.partition_header_length,
                  writer_m.data_offset - writer_m.start_offset)
    /\ writer_m.index # None =>
          Contiguous(writer_m.index[1].blocks, writer_m.partition_header_length,
                     writer_m.data_offset - writer_m.start_offset)

\* A promoted index of three blocks is written for a partition that is not
\* the first of the file; its last block ends with the partition.
C38_Witness ==
    /\ writer_m.index # None
    /\ Len(writer_m.index[1].blocks) >= 3
    /\ writer_m.start_offset > 0
    /\ LET last == writer_m.index[1].blocks[Len(writer_m.index[1].blocks)]
       IN  last.offset + last.width = writer_m.data_offset - writer_m.start_offset

(***************************************************************************)
(* The sizes of a sealed summary                                           *)
(***************************************************************************)

\* read_summary came to seal_summary: the Summary was not listed, or its
\* read threw and left the summary without an entry.
Regenerated ==
    /\ table = "read"
    /\ \/ ~summary_file.listed
       \/ ~ReadOfStored.ok /\ ~summary_loaded(ReadOfStored.s)

\* C39: a summary that has been sealed, by the writer at the end of the
\* stream or by generate_summary after a missing or unparsable Summary, has
\* as many positions as entries, and header.size is that number.
C39_SealedSizesEqual ==
    (Sealed \/ Regenerated) =>
        /\ Len(summary.entries) = summary.header.size
        /\ Len(summary.positions) = summary.header.size

(***************************************************************************)
(* What consume_end_of_partition returns                                   *)
(***************************************************************************)

\* The offset consume_end_of_partition compares: the length of the
\* compressed Data file when the table is compressed, else the Data file
\* writer's offset.
CurrentDataOffset ==
    IF data_writer.compression
    THEN data_writer.compressed_file_length
    ELSE end_offset(data_file)

\* C33: consume_end_of_partition returns stop_iteration::yes exactly when
\* the current data offset, the compressed length for a compressed table,
\* is greater than or equal to cfg.max_sstable_size, and no otherwise.
C33_StopAtMaxSize ==
    (table = "write" /\ data_writer.returned # None) =>
        /\ data_writer.returned[1] \in {"yes", "no"}
        /\ data_writer.returned[1] = "yes"
              <=> CurrentDataOffset >= data_writer.max_sstable_size

\* The offset is exactly the maximum and yes was returned, for a compressed
\* table whose uncompressed length had passed the maximum a partition
\* before, when no was returned.
C33_Witness ==
    /\ table = "write"
    /\ data_writer.compression
    /\ data_writer.returned = Some("yes")
    /\ CurrentDataOffset = data_writer.max_sstable_size
    /\ end_offset(data_file) - data_file[Len(data_file)].size > data_writer.max_sstable_size

\* The same for a table that is not compressed; no was returned below the
\* maximum.
C33_WitnessUncompressed ==
    /\ table = "write"
    /\ ~data_writer.compression
    /\ \/ /\ data_writer.returned = Some("yes")
          /\ end_offset(data_file) = data_writer.max_sstable_size
       \/ /\ data_writer.returned = Some("no")
          /\ end_offset(data_file) = data_writer.max_sstable_size - 2

(***************************************************************************)
(* A delete cut by a crash and invoked again                               *)
(***************************************************************************)

\* The delete at hand follows one that a crash has cut.
DeleteAgain == dcrashed /\ dst \in {"run", "done"}

\* C37: a delete invoked again after a crash has cut a delete never fails
\* on what the cut delete has done already: the TOC it is about to rename
\* and the TemporaryTOC it is about to read or unlink are there, components
\* already unlinked are passed over, and when it has returned no component
\* file, no TOC and no TemporaryTOC of the generation is left.
C37_DeleteAgainCompletes ==
    DeleteAgain =>
        /\ DAt("rename_toc") => "TOC" \in files["dir"]
        /\ DAt("read_toc_lines") => "TemporaryTOC" \in files["dir"]
        /\ DAt("remove_temporary_toc") =>
              /\ "TemporaryTOC" \in files["dir"]
              /\ files["dir"] = {"TemporaryTOC"}
        /\ dst = "done" => files["dir"] = {}

\* The delete invoked again has run to its end, past components the cut
\* delete had unlinked already.
C37_Witness ==
    /\ dcrashed
    /\ dst = "done"
    /\ dpc > Len(remove_by_toc_name)
    /\ ~drenamed
    /\ files["dir"] = {}

\* The delete invoked again finds a component of the TOC unlinked already.
C37_WitnessTolerated ==
    /\ dcrashed
    /\ DAt("remove_components")
    /\ dq # <<>>
    /\ Head(dq) \notin files["dir"]
    /\ \E n \in Range(dq) : n \in files["dir"]

(***************************************************************************)
(* C36: two writers of one generation                                      *)
(***************************************************************************)

\* write_toc has returned to the writer's constructor.
PastTocCreation(w) == wst[w] = "run" /\ wpc[w] > Len(write_toc)

\* C36: of the writers started for the generation, whatever seal or delete of
\* the generation they interleave with, at most one is past the creation of
\* its TOC, and the TemporaryTOC of a writer that has not sealed is in place.
C36_OneWriterPastToc ==
    /\ Cardinality({w \in Writers : PastTocCreation(w)}) <= 1
    /\ \A w \in Writers : Unsealed(w) => "TemporaryTOC" \in files["dir"]

(***************************************************************************)
(* C32: the same stream written twice                                      *)
(***************************************************************************)

PromotedIndexBlocks ==
    IF components_writer.index # None THEN components_writer.index[1]
    ELSE components_writer.pi_write.data \o
         (IF components_writer.pi_write.block_first_colname = None THEN <<>>
          ELSE <<[first |-> components_writer.pi_write.block_first_colname[1],
                  last |-> components_writer.pi_write.block_last_colname[1],
                  offset |-> components_writer.pi_write.block_start_offset
                                 - components_writer.start_offset,
                  width |-> components_writer.data_offset
                                 - components_writer.pi_write.block_start_offset]>>)

\* Where a block starts in the Data file.
BlockStartOffset(b) == components_writer.start_offset + b.offset

\* The range tombstone covers the rows of the key.
CoversKey(rt, key) ==
    rt_position(rt) <= bound_position(key, "incl_start") /\ after_key(key) <= rt_end_position(rt)

\* Where the first atom of a block is: the first element at or after the
\* start of the block that is not a range tombstone written again.
FirstAtomOffset(b) ==
    LET atoms == {j \in DOMAIN components_writer.data :
                     /\ ~components_writer.data[j].again
                     /\ components_writer.data[j].at >= BlockStartOffset(b)}
    IN  components_writer.data[CHOOSE j \in atoms : \A k \in atoms : j <= k].at

\* The range tombstone of element j is written again in block b: after the
\* start of the block, before its first atom, and inside offset + width.
WrittenAgainIn(j, b) ==
    \E r \in DOMAIN components_writer.data :
        /\ components_writer.data[r].again
        /\ components_writer.data[r].rt = components_writer.data[j].rt
        /\ components_writer.data[r].at >= BlockStartOffset(b)
        /\ components_writer.data[r].at < FirstAtomOffset(b)
        /\ components_writer.data[r].at + components_writer.data[r].size
               <= BlockStartOffset(b) + b.width

\* C40: for every promoted-index block of the legacy writer but the first of
\* its partition, every range tombstone the partition has in the Data file
\* before the block and that covers the key of the block's first column name
\* is written again in the block, before the block's first atom and inside
\* the bytes the promoted index records for the block.
C40_OpenRangeTombstonesRepeated ==
    \A i \in 2..Len(PromotedIndexBlocks) :
        \A j \in DOMAIN components_writer.data :
            ( /\ components_writer.data[j].el = "range_tombstone"
              /\ components_writer.data[j].at < BlockStartOffset(PromotedIndexBlocks[i])
              /\ CoversKey(components_writer.data[j].rt[1], PromotedIndexBlocks[i].first.key) )
            => WrittenAgainIn(j, PromotedIndexBlocks[i])

\* The second partition has ended with a promoted index whose last block
\* starts at a cell and holds two range tombstones written again, one of them
\* longer than a row.
C40_Witness ==
    /\ stream.stage = "none"
    /\ components_writer.start_offset > 0
    /\ components_writer.index # None
    /\ \E i \in 2..Len(PromotedIndexBlocks) :
           /\ PromotedIndexBlocks[i].first.name # 0
           /\ \E j, k \in DOMAIN components_writer.data :
                  /\ j # k
                  /\ components_writer.data[j].el = "range_tombstone"
                  /\ components_writer.data[k].el = "range_tombstone"
                  /\ components_writer.data[j].rt # components_writer.data[k].rt
                  /\ components_writer.data[j].rt[1].start < components_writer.data[j].rt[1].end
                  /\ components_writer.data[j].at < BlockStartOffset(PromotedIndexBlocks[i])
                  /\ components_writer.data[k].at < BlockStartOffset(PromotedIndexBlocks[i])
                  /\ CoversKey(components_writer.data[j].rt[1], PromotedIndexBlocks[i].first.key)
                  /\ CoversKey(components_writer.data[k].rt[1], PromotedIndexBlocks[i].first.key)
                  /\ WrittenAgainIn(j, PromotedIndexBlocks[i])
                  /\ WrittenAgainIn(k, PromotedIndexBlocks[i])


(***************************************************************************)
(* C31: a forwarding read and a restricted read yield the same             *)
(***************************************************************************)

\* The forwarding read of the partition written, through the sub-ranges.
ForwardingRead(ranges) ==
    forwarding_read(writer_m.data, writer_m.index,
                    read_partition_header(writer_m.data, NewForwardingRead), ranges, 1)

\* The forwarding read has yielded what the full read yields inside the
\* sub-ranges, and nothing twice.
YieldsAsRestricted(forwarding, full, ranges) ==
    forwarding.ok /\ forwarding.mutation = restricted(full.mutation, ranges)

\* C31: for every partition written and every sequence of sub-ranges that do
\* not overlap and go up, the forwarding reader, which skips by the promoted
\* index and takes the open range tombstone from the open marker of the block
\* before, yields the rows and range tombstones that a reader without
\* forwarding yields inside the sub-ranges, and yields no stretch twice.
C31_FastForwardEquivalence ==
    PartitionWritten =>
        LET full == read_rows(writer_m.data)
            header == read_partition_header(writer_m.data, NewForwardingRead)
        IN  \A ranges \in SubRangeSequences :
                YieldsAsRestricted(
                    forwarding_read(writer_m.data, writer_m.index, header, ranges, 1),
                    full, ranges)

\* A partition with a promoted index whose first block ends with a range
\* tombstone open: the reader skips the first block for a sub-range that
\* starts in the second, and yields the range tombstone from the start of the
\* sub-range.
C31_Witness ==
    /\ PartitionWritten
    /\ writer_m.index # None
    /\ Len(writer_m.index[1].blocks) >= 2
    /\ writer_m.index[1].blocks[1].open_marker # None
    /\ \E range \in SubRanges :
           LET skipped == skip_to_block(writer_m.data, writer_m.index,
                                        read_partition_header(writer_m.data, NewForwardingRead),
                                        range[1])
           IN  /\ skipped.open # None
               /\ skipped.next > read_partition_header(writer_m.data, NewForwardingRead).next
               /\ ForwardingRead(<<range>>).mutation.range_tombstones[range[1]] # 0
               /\ \E k \in Keys : ForwardingRead(<<range>>).mutation.rows[k] # 0
               /\ ForwardingRead(<<range>>).mutation =
                      restricted(read_rows(writer_m.data).mutation, <<range>>)

====
